---- MODULE Spec2Model ----
(***************************************************************************)
(* Retrieval + tool-orchestration core of the news-article RAG backend:    *)
(* VectorStore.search and the catalog scans (backend/vector_store.py), the *)
(* two search tools and the ToolManager (backend/search_tools.py), the     *)
(* multi-round generation loop (backend/ai_generator.py) and               *)
(* RAGSystem.query (backend/rag_system.py).                                *)
(*                                                                         *)
(* Strings that the code lower-cases or searches by substring (person      *)
(* names, roles) are sequences of one-character strings; strings that are  *)
(* only compared or used as ids (titles, links, query texts) are atomic.   *)
(* Python's None is the empty sequence for the former kind of value and    *)
(* the atomic string None for the latter (both are falsy, like "").        *)
(***************************************************************************)
EXTENDS Integers, Sequences, FiniteSets, TLC

VARIABLES
    article_catalog,  \* VectorStore.article_catalog: Seq of entries, in scan order
    article_content,  \* VectorStore.article_content: Seq of chunks
    live,           \* collection name -> whether the store's handle refers to an existing collection
    processor,      \* DocumentProcessor: its chunk_size and chunk_overlap
    doc_text,       \* the text handed to chunk_text: Seq of words
    doc_file,       \* the file handed to process_article_document: its name and lines
    tool_manager,   \* ToolManager.tools: Seq of [name, tool], in insertion order
    last_sources,   \* tool name -> that tool instance's last_sources list
    slot_writer,    \* history: tool name -> id of the query whose execute wrote the slot (0: none)
    last_op,        \* history: the last direct store / tool operation and its outcome
    pc,             \* per caller: position inside RAGSystem.query / generate_response
    current_round,  \* per caller: generate_response's current_round
    messages,       \* per caller: generate_response's messages list
    response,       \* per caller: the model response being processed
    block_idx,      \* per caller: position of _execute_tools_and_update_messages in response.content
    tool_results,   \* per caller: tool_results list being built
    api_log,        \* history, per caller: the _call_api calls of the current query
    tool_log,       \* history, per caller: the execute_tool calls of the current query
    outcome,        \* per caller: how generate_response / query ended
    qid,            \* per caller: id of the caller's current query (0: none yet)
    nqueries        \* number of queries started so far

vars == <<article_catalog, article_content, live, processor, doc_text, doc_file, tool_manager,
          last_sources, slot_writer, last_op, pc, current_round,
          messages, response, block_idx, tool_results, api_log, tool_log,
          outcome, qid, nqueries>>

storeVars == <<article_catalog, article_content, live>>
docVars == <<processor, doc_text, doc_file>>
loopVars == <<pc, current_round, messages, response, block_idx, tool_results,
              api_log, tool_log, outcome, qid, nqueries>>

-----------------------------------------------------------------------------
(* Bounds *)

\* most content blocks in one model response
MaxBlocks == 2
\* most queries issued in one run
MaxQueries == 2
\* VectorStore.max_results (config.MAX_RESULTS)
MaxResults == 2

\* AIGenerator.MAX_TOOL_ROUNDS
MAX_TOOL_ROUNDS == 2

-----------------------------------------------------------------------------
(* Values *)

None == "None"

\* Python truthiness of an Optional[str] held as an atomic string
Truthy(s) == s # None /\ s # ""
\* Python truthiness of a str / list held as a sequence
TruthySeq(s) == Len(s) > 0

LowerChar(c) ==
    CASE c = "A" -> "a"
      [] c = "B" -> "b"
      [] c = "C" -> "c"
      [] OTHER -> c

\* str.lower()
Lower(s) == [i \in 1..Len(s) |-> LowerChar(s[i])]

\* Python's `x in y` for strings
Contains(x, y) ==
    \E i \in 1..(Len(y) - Len(x) + 1) : SubSeq(y, i, i + Len(x) - 1) = x

Person(n, c) == [nombre |-> n, cargo |-> c]

Art1 == [title |-> "A1", article_link |-> "L1",
         people |-> <<Person(<<"A", "b">>, <<"C">>), Person(<<"B">>, <<>>)>>]
Art2 == [title |-> "A2", article_link |-> None,
         people |-> <<Person(<<"a", "b">>, <<"c", "b">>)>>]
Art3 == [title |-> "A3", article_link |-> "L3", people |-> <<>>]

Chunk(t, i) == [content |-> <<t, i>>, article_title |-> t, chunk_index |-> i]

\* The stores the model starts from: an empty one, one article, three articles
Stores ==
    { [catalog |-> <<>>, chunks |-> <<>>],
      [catalog |-> <<Art1>>, chunks |-> <<Chunk("A1", 0), Chunk("A1", 1)>>],
      [catalog |-> <<Art1, Art2, Art3>>,
       chunks |-> <<Chunk("A1", 0), Chunk("A1", 1), Chunk("A2", 0)>>] }

SearchToolName == "search_news_content"
PeopleToolName == "search_people_in_articles"
\* ToolManager.tools in registration (dict insertion) order
ToolOrder == <<SearchToolName, PeopleToolName>>
ToolNames == {ToolOrder[i] : i \in 1..Len(ToolOrder)}

RECURSIVE Perms(_)
\* all orderings of a finite set, as sequences
Perms(S) ==
    IF S = {} THEN {<<>>}
    ELSE UNION {{<<x>> \o p : p \in Perms(S \ {x})} : x \in S}

\* What the engine does during one operation: the call sites whose engine
\* call fails, how it ranks the content chunks by distance, and which catalog
\* entry it finds nearest to a text that is not itself a stored title.
Engine(fails, ranking, nearest) ==
    [fails |-> fails, ranking |-> ranking, nearest |-> nearest]

-----------------------------------------------------------------------------
(* VectorStore (backend/vector_store.py) *)

NoError == [msg |-> None, arg |-> None]

\* SearchResults.empty(error_msg)
EmptyResults(msg, arg) ==
    [documents |-> <<>>, metadata |-> <<>>, error |-> [msg |-> msg, arg |-> arg]]

\* SearchResults.is_empty()
IsEmpty(results) == Len(results.documents) = 0

\* indexes i with c[i].title = t (the catalog is keyed by title: at most one)
IndexOfTitle(c, t) == {i \in 1..Len(c) : c[i].title = t}

\* article_catalog.query(query_texts=[t], n_results=1): the nearest entry.
\* A stored title is nearest to itself; for any other text the embedding
\* decides, and some entry is always nearest when the catalog is not empty.
NearestEntry(c, t, eng) ==
    IF Len(c) = 0 THEN 0
    ELSE IF IndexOfTitle(c, t) # {} THEN CHOOSE i \in IndexOfTitle(c, t) : TRUE
    ELSE eng.nearest

\* VectorStore._resolve_article_title, as it would be without its try/except
ResolveArticleTitleUnguarded(article_title, c, eng) ==
    IF "resolve" \in eng.fails
    THEN [raised |-> TRUE, value |-> None]
    ELSE IF NearestEntry(c, article_title, eng) # 0
         THEN [raised |-> FALSE, value |-> c[NearestEntry(c, article_title, eng)].title]
         ELSE [raised |-> FALSE, value |-> None]

\* VectorStore._resolve_article_title
ResolveArticleTitle(article_title, c, eng) ==
    IF "resolve" \in eng.fails
    THEN [raised |-> FALSE, value |-> None]
    ELSE IF NearestEntry(c, article_title, eng) # 0
         THEN [raised |-> FALSE, value |-> c[NearestEntry(c, article_title, eng)].title]
         ELSE [raised |-> FALSE, value |-> None]

\* VectorStore._build_filter: None, or equality on article_title
BuildFilter(resolved_title) == IF ~Truthy(resolved_title) THEN None ELSE resolved_title

RECURSIVE FilterSeq(_, _, _)
\* the chunk indexes of `ranking`, in order, that pass the where filter
FilterSeq(ranking, ch, where) ==
    IF ranking = <<>> THEN <<>>
    ELSE IF where = None \/ ch[Head(ranking)].article_title = where
         THEN <<Head(ranking)>> \o FilterSeq(Tail(ranking), ch, where)
         ELSE FilterSeq(Tail(ranking), ch, where)

Min(a, b) == IF a <= b THEN a ELSE b

\* article_content.query(query_texts, n_results, where): the n nearest
\* chunks that pass the filter, nearest first
ContentQuery(ch, n, where, eng) ==
    LET hits == FilterSeq(eng.ranking, ch, where)
    IN  SubSeq(hits, 1, Min(n, Len(hits)))

\* SearchResults.from_chroma
FromChroma(ch, hits) ==
    [documents |-> [i \in 1..Len(hits) |-> ch[hits[i]].content],
     metadata |-> [i \in 1..Len(hits) |->
                     [article_title |-> ch[hits[i]].article_title,
                      chunk_index |-> ch[hits[i]].chunk_index]],
     error |-> NoError]

NoLimit == [given |-> FALSE, n |-> 0]
Limit(n) == [given |-> TRUE, n |-> n]

\* VectorStore.search, steps 2 and 3: the content query inside try/except.
\* The engine rejects n_results <= 0 with an exception.
SearchContent(query, resolved_title, limit, ch, eng) ==
    LET search_limit == IF limit.given THEN limit.n ELSE MaxResults
    IN  IF "content_query" \in eng.fails \/ search_limit <= 0
        THEN EmptyResults("Search error", query)
        ELSE FromChroma(ch, ContentQuery(ch, search_limit, BuildFilter(resolved_title), eng))

\* VectorStore.search: [raised, results, engine_calls]
Search(query, article_title, limit, c, ch, eng) ==
    LET res == ResolveArticleTitle(article_title, c, eng)
    IN  IF Truthy(article_title) /\ res.raised
        THEN [raised |-> TRUE, results |-> EmptyResults(None, None),
              engine_calls |-> <<"catalog.query">>]
        ELSE IF Truthy(article_title) /\ ~Truthy(res.value)
        THEN [raised |-> FALSE,
              results |-> EmptyResults("No article found matching", article_title),
              engine_calls |-> <<"catalog.query">>]
        ELSE [raised |-> FALSE,
              results |-> SearchContent(query,
                              IF Truthy(article_title) THEN res.value ELSE None,
                              limit, ch, eng),
              engine_calls |-> (IF Truthy(article_title) THEN <<"catalog.query">> ELSE <<>>)
                               \o <<"content.query">>]

\* VectorStore.get_article_link
GetArticleLink(article_title, c, eng) ==
    IF "get_link" \in eng.fails THEN None
    ELSE IF IndexOfTitle(c, article_title) = {} THEN None
    ELSE c[CHOOSE i \in IndexOfTitle(c, article_title) : TRUE].article_link

\* VectorStore.get_people_from_article
GetPeopleFromArticle(article_title, c, eng) ==
    IF "get_people" \in eng.fails THEN <<>>
    ELSE IF IndexOfTitle(c, article_title) = {} THEN <<>>
    ELSE c[CHOOSE i \in IndexOfTitle(c, article_title) : TRUE].people

\* person_name.lower() in person['nombre'].lower(), for some person of the list
MentionsPerson(people, person_name) ==
    \E k \in 1..Len(people) : Contains(Lower(person_name), Lower(people[k].nombre))

RECURSIVE ArticlesByPerson(_, _)
ArticlesByPerson(c, person_name) ==
    IF c = <<>> THEN <<>>
    ELSE (IF MentionsPerson(Head(c).people, person_name)
          THEN <<[title |-> Head(c).title, link |-> Head(c).article_link]>>
          ELSE <<>>) \o ArticlesByPerson(Tail(c), person_name)

\* VectorStore.find_articles_by_person
FindArticlesByPerson(person_name, c, eng) ==
    IF "find_by_person" \in eng.fails THEN <<>> ELSE ArticlesByPerson(c, person_name)

RECURSIVE PeopleWithRole(_, _, _)
\* the people of one article whose cargo is non-empty and contains the role
PeopleWithRole(people, art, role) ==
    IF people = <<>> THEN <<>>
    ELSE (IF TruthySeq(Head(people).cargo)
             /\ Contains(Lower(role), Lower(Head(people).cargo))
          THEN <<[nombre |-> Head(people).nombre, cargo |-> Head(people).cargo,
                  article_title |-> art.title, article_link |-> art.article_link]>>
          ELSE <<>>) \o PeopleWithRole(Tail(people), art, role)

RECURSIVE PeopleByRole(_, _)
PeopleByRole(c, role) ==
    IF c = <<>> THEN <<>>
    ELSE PeopleWithRole(Head(c).people, Head(c), role) \o PeopleByRole(Tail(c), role)

\* VectorStore.find_people_by_role
FindPeopleByRole(role, c, eng) ==
    IF "find_by_role" \in eng.fails THEN <<>> ELSE PeopleByRole(c, role)

RECURSIVE Mentions(_)
\* every (person, article) pair of the catalog, in scan order
Mentions(c) ==
    IF c = <<>> THEN <<>>
    ELSE [k \in 1..Len(Head(c).people) |->
            [person |-> Head(c).people[k], title |-> Head(c).title,
             link |-> Head(c).article_link]] \o Mentions(Tail(c))

\* position of key in the people_map (insertion order), 0 if absent
KeyIndex(pm, key) ==
    IF \E i \in 1..Len(pm) : pm[i].key = key
    THEN CHOOSE i \in 1..Len(pm) : pm[i].key = key
    ELSE 0

\* one iteration of the loop body over a person of an article
AddMention(pm, m) ==
    IF ~TruthySeq(m.person.nombre) THEN pm
    ELSE LET key == Lower(m.person.nombre)
             pm1 == IF KeyIndex(pm, key) = 0
                    THEN Append(pm, [key |-> key, nombre |-> m.person.nombre,
                                     frecuencia |-> 0, cargos |-> {},
                                     articulos |-> <<>>])
                    ELSE pm
             i == KeyIndex(pm1, key)
         IN  [pm1 EXCEPT ![i] =
                 [@ EXCEPT !.frecuencia = @ + 1,
                           !.cargos = IF TruthySeq(m.person.cargo)
                                      THEN @ \cup {m.person.cargo} ELSE @,
                           !.articulos = Append(@, [title |-> m.title, link |-> m.link])]]

RECURSIVE PeopleMap(_, _)
PeopleMap(pm, ms) ==
    IF ms = <<>> THEN pm ELSE PeopleMap(AddMention(pm, Head(ms)), Tail(ms))

RECURSIVE InsertByFreq(_, _)
\* insert e after every entry whose frecuencia is >= e's (stable, descending)
InsertByFreq(sorted, e) ==
    IF sorted = <<>> THEN <<e>>
    ELSE IF Head(sorted).frecuencia >= e.frecuencia
         THEN <<Head(sorted)>> \o InsertByFreq(Tail(sorted), e)
         ELSE <<e>> \o sorted

RECURSIVE SortByFreq(_, _)
\* result.sort(key=frecuencia, reverse=True): a stable sort
SortByFreq(sorted, rest) ==
    IF rest = <<>> THEN sorted
    ELSE SortByFreq(InsertByFreq(sorted, Head(rest)), Tail(rest))

\* VectorStore.get_all_people_with_frequency; on an engine failure the
\* except branch returns nothing (None), which is as falsy as the empty list
GetAllPeopleWithFrequency(c, eng) ==
    IF "all_people" \in eng.fails THEN <<>>
    ELSE SortByFreq(<<>>, PeopleMap(<<>>, Mentions(c)))

-----------------------------------------------------------------------------
(* Search tools and ToolManager (backend/search_tools.py) *)

\* A returned string: a fixed message with its interpolated argument (targ an
\* atomic string, sarg a character sequence), or formatted parts joined by
\* blank lines.
Message(msg, targ, sarg) == [msg |-> msg, targ |-> targ, sarg |-> sarg, parts |-> <<>>]
Joined(parts) == [msg |-> "joined", targ |-> None, sarg |-> <<>>, parts |-> parts]

Source(fmt, name, title, url, index) ==
    [text |-> [fmt |-> fmt, name |-> name, title |-> title], url |-> url, index |-> index]

\* ArticleSearchTool._format_results: idx from enumerate(..., start=1)
FormatResultsIndex(i) == i

\* ArticleSearchTool._format_results: [formatted, sources]
FormatResults(results, c, eng) ==
    [formatted |->
        Joined([i \in 1..Len(results.documents) |->
                  [kind |-> "chunk", title |-> results.metadata[i].article_title,
                   doc |-> results.documents[i]]]),
     sources |->
        [i \in 1..Len(results.documents) |->
            Source("Articulo: {title}", <<>>, results.metadata[i].article_title,
                   GetArticleLink(results.metadata[i].article_title, c, eng),
                   FormatResultsIndex(i))]]

\* execute resetting the slot on entry, as the people tool does
ArticleSearchExecuteResetting(query, article_title, slot, c, ch, eng) ==
    LET s == Search(query, article_title, NoLimit, c, ch, eng)
    IN  IF s.raised
        THEN [raised |-> TRUE, result |-> Message(None, None, <<>>), sources |-> <<>>]
        ELSE IF s.results.error.msg # None
        THEN [raised |-> FALSE,
              result |-> Message(s.results.error.msg, s.results.error.arg, <<>>),
              sources |-> <<>>]
        ELSE IF IsEmpty(s.results)
        THEN [raised |-> FALSE,
              result |-> Message("No se encontro contenido relevante",
                                 IF Truthy(article_title) THEN article_title ELSE None, <<>>),
              sources |-> <<>>]
        ELSE [raised |-> FALSE,
              result |-> FormatResults(s.results, c, eng).formatted,
              sources |-> FormatResults(s.results, c, eng).sources]

\* ArticleSearchTool.execute: [raised, result, sources], sources being the
\* tool's last_sources slot after the call (slot before the call: `slot`)
ArticleSearchExecute(query, article_title, slot, c, ch, eng) ==
    LET s == Search(query, article_title, NoLimit, c, ch, eng)
    IN  IF s.raised
        THEN [raised |-> TRUE, result |-> Message(None, None, <<>>), sources |-> slot]
        ELSE IF s.results.error.msg # None
        THEN [raised |-> FALSE,
              result |-> Message(s.results.error.msg, s.results.error.arg, <<>>),
              sources |-> slot]
        ELSE IF IsEmpty(s.results)
        THEN [raised |-> FALSE,
              result |-> Message("No se encontro contenido relevante",
                                 IF Truthy(article_title) THEN article_title ELSE None, <<>>),
              sources |-> slot]
        ELSE [raised |-> FALSE,
              result |-> FormatResults(s.results, c, eng).formatted,
              sources |-> FormatResults(s.results, c, eng).sources]

Segment(kind, title, link, key, people) ==
    [kind |-> kind, title |-> title, link |-> link, key |-> key, people |-> people]

\* PeopleSearchTool: "index": len(self.last_sources) + 1
NextIndexRestart(sources) == 1
NextIndex(sources) == Len(sources) + 1

\* The state of PeopleSearchTool.execute between its cases: whether it has
\* returned (and what), the results list and self.last_sources
Running(results, sources) ==
    [returned |-> FALSE, result |-> Message(None, None, <<>>),
     results |-> results, sources |-> sources]
Returned(result, sources) ==
    [returned |-> TRUE, result |-> result, results |-> <<>>, sources |-> sources]

RECURSIVE AllPeopleSources(_, _, _)
\* PeopleSearchTool._format_all_people: one source per person and article
AllPeopleSources(people, k, sources) ==
    IF people = <<>> THEN sources
    ELSE IF k > Len(Head(people).articulos)
    THEN AllPeopleSources(Tail(people), 1, sources)
    ELSE AllPeopleSources(people, k + 1,
            Append(sources,
                   Source("{nombre} en: {title}", Head(people).nombre,
                          Head(people).articulos[k].title,
                          Head(people).articulos[k].link, NextIndex(sources))))

\* PeopleSearchTool.execute, case 0: no parameters
PeopleCase0(c, eng) ==
    LET all_people == GetAllPeopleWithFrequency(c, eng)
    IN  IF TruthySeq(all_people)
        THEN Returned(Joined(<<Segment("all_people", None, None, <<>>, all_people)>>),
                      AllPeopleSources(all_people, 1, <<>>))
        ELSE Returned(Message("No se encontraron personas registradas en las noticias",
                              None, <<>>), <<>>)

\* PeopleSearchTool.execute, case 1: people of one article
PeopleCase1(st, article_title, c, eng) ==
    IF st.returned \/ ~Truthy(article_title) THEN st
    ELSE LET people_list == GetPeopleFromArticle(article_title, c, eng)
             article_link == GetArticleLink(article_title, c, eng)
         IN  IF TruthySeq(people_list)
             THEN Running(
                    Append(st.results,
                           Segment("people_in_article", article_title, article_link,
                                   <<>>, people_list)),
                    Append(st.sources,
                           Source("Personas en: {title}", <<>>, article_title,
                                  article_link, NextIndex(st.sources))))
             ELSE Returned(Message("No se encontraron personas registradas en el articulo",
                                   article_title, <<>>), st.sources)

\* matching_person: the people of the list whose nombre contains person_name
MatchingPerson(people_list, person_name) ==
    SelectSeq(people_list,
              LAMBDA p : Contains(Lower(person_name), Lower(p.nombre)))

RECURSIVE PersonLoop(_, _, _, _, _)
\* the `for article in articles` loop of case 2
PersonLoop(st, articles, person_name, c, eng) ==
    IF articles = <<>> THEN st
    ELSE LET article == Head(articles)
             matching_person == MatchingPerson(
                                   GetPeopleFromArticle(article.title, c, eng), person_name)
         IN  PersonLoop(
               IF TruthySeq(matching_person)
               THEN Running(
                      Append(st.results,
                             Segment("person_in_context", article.title, article.link,
                                     person_name, <<matching_person[1]>>)),
                      Append(st.sources,
                             Source("{person_name} en: {title}", person_name,
                                    article.title, article.link, NextIndex(st.sources))))
               ELSE st,
               Tail(articles), person_name, c, eng)

\* PeopleSearchTool.execute, case 2: articles mentioning a person
PeopleCase2(st, person_name, c, eng) ==
    IF st.returned \/ ~TruthySeq(person_name) THEN st
    ELSE LET articles == FindArticlesByPerson(person_name, c, eng)
         IN  IF TruthySeq(articles)
             THEN PersonLoop(st, articles, person_name, c, eng)
             ELSE Returned(Message("No se encontraron articulos que mencionen a",
                                   None, person_name), st.sources)

RECURSIVE RoleSources(_, _)
\* the `for person in people` loop of case 3
RoleSources(sources, people) ==
    IF people = <<>> THEN sources
    ELSE RoleSources(
            Append(sources,
                   Source("{nombre} en: {title}", Head(people).nombre,
                          Head(people).article_title, Head(people).article_link,
                          NextIndex(sources))),
            Tail(people))

\* PeopleSearchTool.execute, case 3: people by role
PeopleCase3(st, role, c, eng) ==
    IF st.returned \/ ~TruthySeq(role) THEN st
    ELSE LET people == FindPeopleByRole(role, c, eng)
         IN  IF TruthySeq(people)
             THEN Running(Append(st.results,
                                 Segment("people_by_role", None, None, role, people)),
                          RoleSources(st.sources, people))
             ELSE Returned(Message("No se encontraron personas con el cargo",
                                   None, role), st.sources)

\* PeopleSearchTool.execute: [raised, result, sources]; the slot is reset
\* first, whatever it held
PeopleSearchExecute(article_title, person_name, role, c, eng) ==
    LET st == IF ~Truthy(article_title) /\ ~TruthySeq(person_name) /\ ~TruthySeq(role)
              THEN PeopleCase0(c, eng)
              ELSE PeopleCase3(
                     PeopleCase2(
                       PeopleCase1(Running(<<>>, <<>>), article_title, c, eng),
                       person_name, c, eng),
                     role, c, eng)
    IN  [raised |-> FALSE,
         result |-> IF st.returned THEN st.result
                    ELSE IF TruthySeq(st.results) THEN Joined(st.results)
                    ELSE Message("No se encontraron resultados", None, <<>>),
         sources |-> st.sources]

\* A tool-use request: the tool name and the keyword arguments of its input
\* (an argument that is None / empty is an absent key)
ToolCall(name, has_query, article_title, person_name, role) ==
    [name |-> name, has_query |-> has_query, article_title |-> article_title,
     person_name |-> person_name, role |-> role]

\* Python's call tool.execute(**kwargs): a TypeError when a required argument
\* is missing or a keyword is not a parameter of that execute
KwargsMismatch(call) ==
    \/ call.name = SearchToolName
       /\ (~call.has_query \/ TruthySeq(call.person_name) \/ TruthySeq(call.role))
    \/ call.name = PeopleToolName /\ call.has_query

\* execute_tool without the membership test: self.tools[tool_name] raises
\* KeyError for a name that is not registered
ExecuteToolUnchecked(call, ls, c, ch, eng) ==
    IF call.name \notin ToolNames \/ KwargsMismatch(call)
    THEN [raised |-> TRUE, result |-> Message(None, None, <<>>), sources |-> ls]
    ELSE IF call.name = SearchToolName
    THEN LET r == ArticleSearchExecute("q", call.article_title, ls[SearchToolName],
                                       c, ch, eng)
         IN  [raised |-> r.raised, result |-> r.result,
              sources |-> [ls EXCEPT ![SearchToolName] = r.sources]]
    ELSE LET r == PeopleSearchExecute(call.article_title, call.person_name, call.role,
                                      c, eng)
         IN  [raised |-> r.raised, result |-> r.result,
              sources |-> [ls EXCEPT ![PeopleToolName] = r.sources]]

\* ToolManager.execute_tool: [raised, result, sources], sources being every
\* tool's last_sources after the call
ExecuteTool(call, ls, c, ch, eng) ==
    IF call.name \notin ToolNames
    THEN [raised |-> FALSE, result |-> Message("Tool not found", call.name, <<>>),
          sources |-> ls]
    ELSE IF KwargsMismatch(call)
    THEN [raised |-> TRUE, result |-> Message(None, None, <<>>), sources |-> ls]
    ELSE IF call.name = SearchToolName
    THEN LET r == ArticleSearchExecute("q", call.article_title, ls[SearchToolName],
                                       c, ch, eng)
         IN  [raised |-> r.raised, result |-> r.result,
              sources |-> [ls EXCEPT ![SearchToolName] = r.sources]]
    ELSE LET r == PeopleSearchExecute(call.article_title, call.person_name, call.role,
                                      c, eng)
         IN  [raised |-> r.raised, result |-> r.result,
              sources |-> [ls EXCEPT ![PeopleToolName] = r.sources]]

RECURSIVE FirstNonEmpty(_, _)
FirstNonEmpty(ls, order) ==
    IF order = <<>> THEN <<>>
    ELSE IF TruthySeq(ls[Head(order)]) THEN ls[Head(order)]
    ELSE FirstNonEmpty(ls, Tail(order))

\* get_last_sources scanning the tools in the reverse of registration order
GetLastSourcesReversed(ls) == FirstNonEmpty(ls, <<PeopleToolName, SearchToolName>>)

\* ToolManager.get_last_sources
GetLastSources(ls) == FirstNonEmpty(ls, ToolOrder)

\* ToolManager.reset_sources
ResetSources(ls) == [t \in DOMAIN ls |-> <<>>]

-----------------------------------------------------------------------------
(* Inputs *)

Callers == {1, 2}

TitleArgs == {None, "A1", "A3", "ZZ"}
LimitArgs == {NoLimit, Limit(0), Limit(1)}

\* content searches: with a query and any title filter; without the required
\* query; with a keyword the tool does not take
SearchCalls ==
    {ToolCall(SearchToolName, TRUE, t, <<>>, <<>>) : t \in TitleArgs}
    \cup {ToolCall(SearchToolName, FALSE, None, <<>>, <<>>),
          ToolCall(SearchToolName, TRUE, None, <<>>, <<"c">>)}
\* people lookups: every combination of an absent, a matching and a
\* non-matching value of each filter; and one with a keyword it does not take
PeopleCalls ==
    {ToolCall(PeopleToolName, FALSE, t, p, r) :
        t \in {None, "A1", "A3"}, p \in {<<>>, <<"a">>, <<"c", "c">>},
        r \in {<<>>, <<"c">>, <<"a">>}}
    \cup {ToolCall(PeopleToolName, TRUE, None, <<>>, <<>>)}
UnknownCalls == {ToolCall("no_such_tool", TRUE, None, <<>>, <<>>)}
ToolCalls == SearchCalls \cup PeopleCalls \cup UnknownCalls

Identity(n) == [i \in 1..n |-> i]
Reverse(n) == [i \in 1..n |-> n + 1 - i]

\* VectorStore.search alone: every subset of its two engine calls may fail,
\* every ranking of the chunks, every catalog entry as the nearest one
SearchEngines(c, ch) ==
    {Engine(f, r, n) : f \in SUBSET {"resolve", "content_query"},
                       r \in Perms(1..Len(ch)),
                       n \in IF Len(c) = 0 THEN {0} ELSE 1..Len(c)}

\* The engine behaviours that make a difference to one call of the content
\* search tool: any of its engine calls may fail; two rankings; the first or
\* the last catalog entry is nearest to a title that is not stored
ArticleToolEngines(call, c, ch) ==
    {Engine(f, r, n) :
        f \in SUBSET ((IF Truthy(call.article_title) THEN {"resolve"} ELSE {})
                      \cup {"content_query", "get_link"}),
        r \in {Identity(Len(ch)), Reverse(Len(ch))},
        n \in IF Len(c) = 0 THEN {0}
              ELSE IF Truthy(call.article_title) /\ IndexOfTitle(c, call.article_title) = {}
              THEN {1, Len(c)} ELSE {1}}

\* The catalog reads one call of the people tool can make
PeopleSites(call) ==
    IF ~Truthy(call.article_title) /\ ~TruthySeq(call.person_name) /\ ~TruthySeq(call.role)
    THEN {"all_people"}
    ELSE (IF Truthy(call.article_title) THEN {"get_people", "get_link"} ELSE {})
         \cup (IF TruthySeq(call.person_name) THEN {"find_by_person", "get_people"} ELSE {})
         \cup (IF TruthySeq(call.role) THEN {"find_by_role"} ELSE {})

\* The engine behaviours that make a difference to one call of the people
\* tool: no catalog read fails, or the reads of one call site fail
PeopleToolEngines(call, c, ch) ==
    {Engine(f, Identity(Len(ch)), IF Len(c) = 0 THEN 0 ELSE 1) :
        f \in {{}} \cup {{site} : site \in PeopleSites(call)}}

EnginesFor(call, c, ch) ==
    IF call.name = SearchToolName /\ ~KwargsMismatch(call)
    THEN ArticleToolEngines(call, c, ch)
    ELSE IF call.name = PeopleToolName /\ ~KwargsMismatch(call)
    THEN PeopleToolEngines(call, c, ch)
    ELSE {Engine({}, Identity(Len(ch)), IF Len(c) = 0 THEN 0 ELSE 1)}

-----------------------------------------------------------------------------
(* Initial state: a store, fresh tools, no query in progress *)

\* no file read yet
NoFile == [name |-> None, lines |-> <<>>]

\* DocumentProcessor(config.CHUNK_SIZE, config.CHUNK_OVERLAP), counted in
\* characters of the model's words
DefaultProcessor == [chunk_size |-> 8, chunk_overlap |-> 4]

\* fresh tools and collection handles, no query in progress
InitIdle ==
    /\ live = [catalog |-> TRUE, content |-> TRUE]
    /\ last_sources = [t \in ToolNames |-> <<>>]
    /\ slot_writer = [t \in ToolNames |-> 0]
    /\ last_op = [op |-> "init"]
    /\ pc = [p \in Callers |-> "idle"]
    /\ current_round = [p \in Callers |-> 0]
    /\ messages = [p \in Callers |-> <<>>]
    /\ response = [p \in Callers |-> [stop_reason |-> None, content |-> <<>>]]
    /\ block_idx = [p \in Callers |-> 0]
    /\ tool_results = [p \in Callers |-> <<>>]
    /\ api_log = [p \in Callers |-> <<>>]
    /\ tool_log = [p \in Callers |-> <<>>]
    /\ outcome = [p \in Callers |-> [kind |-> "none"]]
    /\ qid = [p \in Callers |-> 0]
    /\ nqueries = 0

\* RAGSystem.__init__: the store, the tools, no query in progress
InitSystem ==
    /\ \E st \in Stores : article_catalog = st.catalog /\ article_content = st.chunks
    /\ InitIdle

\* RAGSystem.__init__ registers the content search tool, then the people tool
RagTools ==
    <<[name |-> SearchToolName, tool |-> "search_tool"],
      [name |-> PeopleToolName, tool |-> "people_tool"]>>

Init ==
    /\ InitSystem
    /\ processor = DefaultProcessor
    /\ doc_text = <<>>
    /\ doc_file = NoFile
    /\ tool_manager = RagTools

-----------------------------------------------------------------------------
(* Direct use of the store: VectorStore.search *)

VSearch(article_title, limit, eng) ==
    /\ last_op' = [op |-> "search", article_title |-> article_title, limit |-> limit,
                   eng |-> eng,
                   out |-> Search("q", article_title, limit, article_catalog, article_content, eng)]
    /\ UNCHANGED <<storeVars, docVars, tool_manager, last_sources, slot_writer, loopVars>>

NextStore ==
    \E t \in TitleArgs, l \in LimitArgs, eng \in SearchEngines(article_catalog, article_content) :
        VSearch(t, l, eng)

SpecStore == Init /\ [][NextStore]_vars

-----------------------------------------------------------------------------
(* Direct use of the tools through the ToolManager *)

ToolExec(call, eng) ==
    LET r == ExecuteTool(call, last_sources, article_catalog, article_content, eng)
    IN  /\ last_sources' = r.sources
        /\ last_op' = [op |-> "execute_tool", call |-> call, eng |-> eng,
                       raised |-> r.raised, result |-> r.result]
        /\ UNCHANGED <<storeVars, docVars, tool_manager, slot_writer, loopVars>>

ToolGetSources ==
    /\ last_op' = [op |-> "get_last_sources", out |-> GetLastSources(last_sources)]
    /\ UNCHANGED <<storeVars, docVars, tool_manager, last_sources, slot_writer, loopVars>>

ToolReset ==
    /\ last_sources' = ResetSources(last_sources)
    /\ last_op' = [op |-> "reset_sources"]
    /\ UNCHANGED <<storeVars, docVars, tool_manager, slot_writer, loopVars>>

NextTools ==
    \/ \E call \in ToolCalls : \E eng \in EnginesFor(call, article_catalog, article_content) :
          ToolExec(call, eng)
    \/ ToolGetSources
    \/ ToolReset

SpecTools == Init /\ [][NextTools]_vars

-----------------------------------------------------------------------------
(* The generation loop (backend/ai_generator.py) and RAGSystem.query       *)
(* (backend/rag_system.py). Each caller runs one query at a time; a step   *)
(* runs the code up to its next external call (model or tool).             *)

NoCall == ToolCall(None, FALSE, None, <<>>, <<>>)
TextBlock(text) == [type |-> "text", text |-> text, id |-> 0, call |-> NoCall]
ToolUseBlock(call) == [type |-> "tool_use", text |-> None, id |-> 0, call |-> call]

\* What the model may put in a response: a text, a content search that finds
\* chunks, a content search without its required query, a people lookup
BlockKinds ==
    {TextBlock("t1"),
     ToolUseBlock(ToolCall(SearchToolName, TRUE, "A1", <<>>, <<>>)),
     ToolUseBlock(ToolCall(SearchToolName, FALSE, None, <<>>, <<>>)),
     ToolUseBlock(ToolCall(PeopleToolName, FALSE, None, <<>>, <<>>))}

\* sequences over S of length n
SeqsOfLen(S, n) == [1..n -> S]
\* sequences over S of length at most n
SeqsUpTo(S, n) == UNION {SeqsOfLen(S, k) : k \in 0..n}

\* Responses that stop for tool use: any content, also one without a
\* tool-use block
ToolResponses ==
    {[stop_reason |-> "tool_use", content |-> c] : c \in SeqsUpTo(BlockKinds, MaxBlocks)}
\* Responses that end the turn: text blocks only
TextResponses ==
    {[stop_reason |-> "end_turn", content |-> c] :
        c \in {<<>>, <<TextBlock("t1")>>, <<TextBlock("t2"), TextBlock("t1")>>}}
Responses == ToolResponses \cup TextResponses

\* The provider gives every tool-use block of its n-th response of a query
\* an id of its own
WithIds(resp, n) ==
    [resp EXCEPT !.content =
        [i \in 1..Len(resp.content) |->
            IF resp.content[i].type = "tool_use"
            THEN [resp.content[i] EXCEPT !.id = n * (MaxBlocks + 1) + i]
            ELSE resp.content[i]]]

\* The engine behaviours the loop is run against: every engine call
\* succeeds, or the content query fails
LoopEngines(c, ch) ==
    {Engine(f, Identity(Len(ch)), IF Len(c) = 0 THEN 0 ELSE 1) :
        f \in {{}, {"content_query"}}}

\* _extract_text_response looking at the first block only
ExtractTextResponseHead(blocks) ==
    IF blocks # <<>> /\ Head(blocks).type = "text" THEN Head(blocks).text ELSE ""

RECURSIVE ExtractTextResponse(_)
\* AIGenerator._extract_text_response: the first block that has a text
ExtractTextResponse(blocks) ==
    IF blocks = <<>> THEN ""
    ELSE IF Head(blocks).type = "text" THEN Head(blocks).text
    ELSE ExtractTextResponse(Tail(blocks))

\* AIGenerator._call_api: `if tools:` decides whether the request offers tools
ToolsEnabled(tools) == tools

\* one _call_api call: whether tools were offered, the round, the messages
\* sent and the response received (stop reason "raised": the call raised)
ApiRecord(p, tools, round, resp) ==
    [tools |-> ToolsEnabled(tools), round |-> round, messages |-> messages[p],
     response |-> resp]

ApiError == [stop_reason |-> "raised", content |-> <<>>]

ReturnedText(text) == [kind |-> "returned", text |-> text, sources |-> <<>>, writer |-> 0]
Raised(what) == [kind |-> "raised", text |-> what, sources |-> <<>>, writer |-> 0]

\* RAGSystem.query up to the first model call: a fresh messages list
StartQuery(p) ==
    /\ pc[p] \in {"idle", "done"}
    /\ nqueries < MaxQueries
    /\ nqueries' = nqueries + 1
    /\ qid' = [qid EXCEPT ![p] = nqueries + 1]
    /\ pc' = [pc EXCEPT ![p] = "loop"]
    /\ current_round' = [current_round EXCEPT ![p] = 0]
    /\ messages' = [messages EXCEPT ![p] = <<[role |-> "user", content |-> "prompt"]>>]
    /\ response' = [response EXCEPT ![p] = [stop_reason |-> None, content |-> <<>>]]
    /\ block_idx' = [block_idx EXCEPT ![p] = 0]
    /\ tool_results' = [tool_results EXCEPT ![p] = <<>>]
    /\ api_log' = [api_log EXCEPT ![p] = <<>>]
    /\ tool_log' = [tool_log EXCEPT ![p] = <<>>]
    /\ outcome' = [outcome EXCEPT ![p] = [kind |-> "none"]]
    /\ UNCHANGED <<storeVars, docVars, tool_manager, last_sources, slot_writer, last_op>>

\* generate_response: `if response.stop_reason != "tool_use"` is false
RequestsToolUseInverted(resp) == resp.stop_reason # "tool_use"
RequestsToolUse(resp) == resp.stop_reason = "tool_use"

\* generate_response: whether the while loop runs another round
LoopContinues(round) == round < MAX_TOOL_ROUNDS

\* generate_response: whether the round just finished was the last one
MaxRoundsReachedLate(round) == round > MAX_TOOL_ROUNDS
MaxRoundsReached(round) == round >= MAX_TOOL_ROUNDS

\* generate_response: one iteration of the while loop up to the tool
\* executions: the round's model call (tools offered) and what follows from
\* its stop reason. query() always supplies the tool manager.
RoundCall(p, resp) ==
    /\ pc[p] = "loop"
    /\ IF LoopContinues(current_round[p])
       THEN LET r == WithIds(resp, current_round[p] + 1)
            IN  /\ current_round' = [current_round EXCEPT ![p] = @ + 1]
                /\ api_log' = [api_log EXCEPT ![p] =
                       Append(@, ApiRecord(p, TRUE, current_round[p] + 1, r))]
                /\ response' = [response EXCEPT ![p] = r]
                /\ IF ~RequestsToolUse(r)
                   THEN /\ outcome' = [outcome EXCEPT ![p] =
                                          ReturnedText(ExtractTextResponse(r.content))]
                        /\ pc' = [pc EXCEPT ![p] = "collect"]
                        /\ UNCHANGED <<messages, block_idx, tool_results>>
                   ELSE /\ messages' = [messages EXCEPT ![p] =
                               Append(@, [role |-> "assistant", content |-> r.content])]
                        /\ tool_results' = [tool_results EXCEPT ![p] = <<>>]
                        /\ block_idx' = [block_idx EXCEPT ![p] = 1]
                        /\ pc' = [pc EXCEPT ![p] = "tools"]
                        /\ UNCHANGED outcome
       ELSE /\ outcome' = [outcome EXCEPT ![p] =
                              ReturnedText("Unable to generate response")]
            /\ pc' = [pc EXCEPT ![p] = "collect"]
            /\ UNCHANGED <<current_round, api_log, response, messages, block_idx,
                           tool_results>>
    /\ UNCHANGED <<storeVars, docVars, tool_manager, last_sources, slot_writer, last_op, tool_log, qid, nqueries>>

\* a model call raises and generate_response swallows the exception and
\* goes on to call the model again
ApiFailRetry(p) ==
    /\ pc[p] \in {"loop", "final"}
    /\ api_log' = [api_log EXCEPT ![p] =
           Append(@, ApiRecord(p, pc[p] = "loop", current_round[p], ApiError))]
    /\ UNCHANGED <<storeVars, docVars, tool_manager, last_sources, slot_writer, last_op,
                   current_round, outcome, pc, messages, response, block_idx,
                   tool_results, tool_log, qid, nqueries>>

\* a model call raises: generate_response re-raises, and so does query(),
\* before it reads or resets the sources
ApiFail(p) ==
    /\ pc[p] \in {"loop", "final"}
    /\ api_log' = [api_log EXCEPT ![p] =
           Append(@, ApiRecord(p, pc[p] = "loop",
                               IF pc[p] = "loop" THEN current_round[p] + 1
                               ELSE current_round[p], ApiError))]
    /\ current_round' = [current_round EXCEPT ![p] =
                            IF pc[p] = "loop" THEN @ + 1 ELSE @]
    /\ outcome' = [outcome EXCEPT ![p] = Raised("api")]
    /\ pc' = [pc EXCEPT ![p] = "done"]
    /\ UNCHANGED <<storeVars, docVars, tool_manager, last_sources, slot_writer, last_op, messages, response,
                   block_idx, tool_results, tool_log, qid, nqueries>>

\* the tool_result entry appended for one tool-use block
ToolResultEntryNoId(block, result) ==
    [type |-> "tool_result", tool_use_id |-> 0, content |-> result]
ToolResultEntry(block, result) ==
    [type |-> "tool_result", tool_use_id |-> block.id, content |-> result]

\* _execute_tools_and_update_messages: `except Exception: raise` lets a
\* raising tool end the loop
FailFastSwallowed(raised) == FALSE
FailFast(raised) == raised

\* whether an execute_tool call rebinds or refills the slot of the tool it
\* names: the people tool always does, the content search tool when it
\* formats results
WritesSlot(call, r) ==
    /\ call.name \in ToolNames
    /\ ~r.raised
    /\ (call.name = PeopleToolName \/ r.result.msg = "joined")

\* _execute_tools_and_update_messages: one iteration of the loop over
\* response.content. A tool that raises ends generate_response and query().
ExecBlock(p, eng) ==
    /\ pc[p] = "tools"
    /\ block_idx[p] <= Len(response[p].content)
    /\ LET block == response[p].content[block_idx[p]]
           r == ExecuteTool(block.call, last_sources, article_catalog, article_content, eng)
       IN  IF block.type # "tool_use"
           THEN /\ block_idx' = [block_idx EXCEPT ![p] = @ + 1]
                /\ UNCHANGED <<last_sources, slot_writer, tool_results, tool_log,
                               outcome, pc>>
           ELSE /\ tool_log' = [tool_log EXCEPT ![p] =
                                   Append(@, [id |-> block.id, raised |-> r.raised])]
                /\ last_sources' = r.sources
                /\ slot_writer' = [t \in ToolNames |->
                                      IF t = block.call.name /\ WritesSlot(block.call, r)
                                      THEN qid[p] ELSE slot_writer[t]]
                /\ IF FailFast(r.raised)
                   THEN /\ outcome' = [outcome EXCEPT ![p] = Raised("tool")]
                        /\ pc' = [pc EXCEPT ![p] = "done"]
                        /\ UNCHANGED <<block_idx, tool_results>>
                   ELSE /\ tool_results' = [tool_results EXCEPT ![p] =
                                               Append(@, ToolResultEntry(block, r.result))]
                        /\ block_idx' = [block_idx EXCEPT ![p] = @ + 1]
                        /\ UNCHANGED <<outcome, pc>>
    /\ UNCHANGED <<storeVars, docVars, tool_manager, last_op, current_round, messages, response, api_log,
                   qid, nqueries>>

\* _execute_tools_and_update_messages after the loop, and the max-rounds
\* check of generate_response
FinishTools(p) ==
    /\ pc[p] = "tools"
    /\ block_idx[p] > Len(response[p].content)
    /\ messages' = [messages EXCEPT ![p] =
           IF TruthySeq(tool_results[p])
           THEN Append(@, [role |-> "user", content |-> tool_results[p]])
           ELSE @]
    /\ pc' = [pc EXCEPT ![p] =
                 IF MaxRoundsReached(current_round[p]) THEN "final" ELSE "loop"]
    /\ UNCHANGED <<storeVars, docVars, tool_manager, last_sources, slot_writer, last_op, current_round,
                   response, block_idx, tool_results, api_log, tool_log, outcome,
                   qid, nqueries>>

\* generate_response: the final call, tools=None
FinalCall(p, resp) ==
    /\ pc[p] = "final"
    /\ api_log' = [api_log EXCEPT ![p] =
                       Append(@, ApiRecord(p, FALSE, current_round[p], resp))]
    /\ response' = [response EXCEPT ![p] = resp]
    /\ outcome' = [outcome EXCEPT ![p] = ReturnedText(ExtractTextResponse(resp.content))]
    /\ pc' = [pc EXCEPT ![p] = "collect"]
    /\ UNCHANGED <<storeVars, docVars, tool_manager, last_sources, slot_writer, last_op, current_round,
                   messages, block_idx, tool_results, tool_log, qid, nqueries>>

\* RAGSystem.query: sources = self.tool_manager.get_last_sources()
CollectSources(p) ==
    /\ pc[p] = "collect"
    /\ outcome' = [outcome EXCEPT ![p] =
           [@ EXCEPT !.sources = GetLastSources(last_sources),
                     !.writer = IF TruthySeq(last_sources[SearchToolName])
                                THEN slot_writer[SearchToolName]
                                ELSE slot_writer[PeopleToolName]]]
    /\ pc' = [pc EXCEPT ![p] = "reset"]
    /\ UNCHANGED <<storeVars, docVars, tool_manager, last_sources, slot_writer, last_op, current_round,
                   messages, response, block_idx, tool_results, api_log, tool_log,
                   qid, nqueries>>

\* RAGSystem.query: self.tool_manager.reset_sources(), then return
ResetAndReturn(p) ==
    /\ pc[p] = "reset"
    /\ last_sources' = ResetSources(last_sources)
    /\ pc' = [pc EXCEPT ![p] = "done"]
    /\ UNCHANGED <<storeVars, docVars, tool_manager, slot_writer, last_op, current_round, messages, response,
                   block_idx, tool_results, api_log, tool_log, outcome, qid, nqueries>>

QueryStep(p, responses, finals) ==
    \/ StartQuery(p)
    \/ \E resp \in responses : RoundCall(p, resp)
    \/ ApiFail(p)
    \/ \E eng \in LoopEngines(article_catalog, article_content) : ExecBlock(p, eng)
    \/ FinishTools(p)
    \/ \E resp \in finals : FinalCall(p, resp)
    \/ CollectSources(p)
    \/ ResetAndReturn(p)

\* the store the queries run against
InitLoop == Init /\ Len(article_catalog) > 1

\* Queries issued one after the other by one caller
Next == QueryStep(1, Responses, TextResponses)

Spec == InitLoop /\ [][Next]_vars

\* Responses of the model when two callers run queries at the same time: one
\* content search, one people lookup, or an answer
ConcResponses ==
    {[stop_reason |-> "tool_use", content |-> <<b>>] :
        b \in {bk \in BlockKinds : bk.type = "tool_use" /\ ~KwargsMismatch(bk.call)}}
    \cup {[stop_reason |-> "end_turn", content |-> <<TextBlock("t1")>>]}

\* Queries of two callers (two request threads sharing the RAGSystem), their
\* steps interleaved
NextConc ==
    \E p \in Callers :
        QueryStep(p, ConcResponses, {[stop_reason |-> "end_turn",
                                      content |-> <<TextBlock("t1")>>]})

SpecConc == InitLoop /\ [][NextConc]_vars

-----------------------------------------------------------------------------
(* Claims about the generation loop, checked under Spec *)

ToolUses(blocks) == SelectSeq(blocks, LAMBDA b : b.type = "tool_use")

\* the calls of caller p's current query that offered tools
RoundCalls(p) == {k \in 1..Len(api_log[p]) : api_log[p][k].tools}

\* generate_response has returned a string to query()
GenerateReturned(p) ==
    pc[p] \in {"collect", "reset", "done"} /\ outcome[p].kind = "returned"

\* C1: against a model that requests tool use in every response,
\* generate_response makes exactly 3 model calls, the first two offering
\* tools and the third not; in no run is there a third call offering tools.
C1_RoundCap ==
    \A p \in Callers :
        /\ Cardinality(RoundCalls(p)) <= MAX_TOOL_ROUNDS
        /\ (/\ GenerateReturned(p)
            /\ \A k \in RoundCalls(p) : api_log[p][k].response.stop_reason = "tool_use")
           => /\ Len(api_log[p]) = MAX_TOOL_ROUNDS + 1
              /\ \A k \in 1..Len(api_log[p]) :
                    api_log[p][k].tools = (k <= MAX_TOOL_ROUNDS)

C1_Witness ==
    /\ pc[1] = "done" /\ outcome[1].kind = "returned"
    /\ Len(api_log[1]) = MAX_TOOL_ROUNDS + 1
    /\ \A k \in RoundCalls(1) : api_log[1][k].response.stop_reason = "tool_use"
    /\ ~api_log[1][Len(api_log[1])].tools

\* the text of the first text block of a response, "" if it has none
FirstTextOf(blocks) ==
    IF \E i \in 1..Len(blocks) : blocks[i].type = "text"
    THEN blocks[CHOOSE i \in 1..Len(blocks) :
                    /\ blocks[i].type = "text"
                    /\ \A j \in 1..(i - 1) : blocks[j].type # "text"].text
    ELSE ""

\* C4: when the model's first response does not request tool use,
\* generate_response makes exactly 1 model call, invokes no tool and returns
\* the text of that response.
C4_EarlyTermination ==
    \A p \in Callers :
        (/\ Len(api_log[p]) >= 1
         /\ api_log[p][1].response.stop_reason \notin {"tool_use", "raised"})
        => /\ Len(api_log[p]) = 1
           /\ tool_log[p] = <<>>
           /\ GenerateReturned(p)
           /\ outcome[p].text = FirstTextOf(api_log[p][1].response.content)

C4_Witness ==
    /\ pc[1] = "done" /\ Len(api_log[1]) = 1
    /\ api_log[1][1].response.stop_reason = "end_turn"
    /\ Len(api_log[1][1].response.content) = 2
    /\ outcome[1].text = "t2"

\* C5: when a tool execution raises, the exception ends generate_response at
\* once: no later tool call of that response is executed, no further model
\* call is made and no answer is returned.
C5_ToolErrorFailFast ==
    \A p \in Callers :
        \A i \in 1..Len(tool_log[p]) :
            tool_log[p][i].raised
            => /\ i = Len(tool_log[p])
               /\ pc[p] = "done"
               /\ outcome[p].kind = "raised"
               /\ LET last == api_log[p][Len(api_log[p])]
                  IN  /\ last.tools
                      /\ \E j \in 1..Len(last.response.content) :
                            /\ last.response.content[j].id = tool_log[p][i].id
                            /\ last.response.content[j].type = "tool_use"

\* a tool raises as the first of two tool calls of a second-round response
C5_Witness ==
    /\ Len(tool_log[1]) >= 2
    /\ tool_log[1][Len(tool_log[1])].raised
    /\ Len(api_log[1]) = 2
    /\ Len(ToolUses(api_log[1][2].response.content)) = 2
    /\ api_log[1][2].response.content[1].id = tool_log[1][Len(tool_log[1])].id

\* C8: provided every earlier tool-requesting response held a tool-use
\* block, the k-th model call receives exactly 2k-1 messages: the user query,
\* then for each completed round the assistant message with the response's
\* content and one user message with one tool_result per tool-use block, in
\* request order, each carrying its block's id; what was sent before is still
\* there, in place.
C8_MessageAccumulation ==
    \A p \in Callers :
        \A k \in 1..Len(api_log[p]) :
            LET m == api_log[p][k].messages
            IN  (\A j \in 1..(k - 1) :
                    ToolUses(api_log[p][j].response.content) # <<>>)
                => /\ Len(m) = 2 * k - 1
                   /\ m[1].role = "user" /\ m[1].content = "prompt"
                   /\ \A j \in 1..(k - 1) :
                        LET uses == ToolUses(api_log[p][j].response.content)
                        IN  /\ m[2 * j].role = "assistant"
                            /\ m[2 * j].content = api_log[p][j].response.content
                            /\ m[2 * j + 1].role = "user"
                            /\ Len(m[2 * j + 1].content) = Len(uses)
                            /\ \A i \in 1..Len(uses) :
                                 /\ m[2 * j + 1].content[i].type = "tool_result"
                                 /\ m[2 * j + 1].content[i].tool_use_id = uses[i].id
                            /\ api_log[p][j].messages = SubSeq(m, 1, 2 * j - 1)

\* the third call of a query whose two rounds each ran two tools
C8_Witness ==
    /\ Len(api_log[1]) = 3
    /\ Len(api_log[1][3].messages) = 5
    /\ Len(api_log[1][3].messages[3].content) = 2
    /\ Len(api_log[1][3].messages[5].content) = 2

\* C2: once a call of RAGSystem.query() has ended, however it ended, the
\* ToolManager's get_last_sources() is empty (until a tool next executes).
C2_SourcesEmptyAfterQuery ==
    \A p \in Callers : pc[p] = "done" => GetLastSources(last_sources) = <<>>

-----------------------------------------------------------------------------
(* Claims about interleaved queries, checked under SpecConc *)

\* C3: when the queries of two callers interleave (and none of them raises),
\* the sources a query returns were put in the slot by a tool execution of
\* that same query.
C3_NoCrossQueryLeak ==
    \A p \in Callers :
        (/\ pc[p] \in {"reset", "done"}
         /\ \A q \in Callers : qid[q] # 0 /\ outcome[q].kind # "raised"
         /\ outcome[p].kind = "returned"
         /\ outcome[p].sources # <<>>)
        => outcome[p].writer = qid[p]

-----------------------------------------------------------------------------
(* Claims about VectorStore.search, checked under SpecStore *)

\* C6: a search whose title filter names no stored article, on a catalog that
\* is not empty, returns an error and no documents, and does not raise.
C6_UnknownFilterYieldsError ==
    (/\ last_op.op = "search"
     /\ Truthy(last_op.article_title)
     /\ IndexOfTitle(article_catalog, last_op.article_title) = {}
     /\ Len(article_catalog) > 0)
    => /\ ~last_op.out.raised
       /\ last_op.out.results.error.msg # None
       /\ last_op.out.results.documents = <<>>

InSeq(x, seq) == \E i \in 1..Len(seq) : seq[i] = x

\* C10: VectorStore.search never raises: an engine failure during title
\* resolution or during the content query gives a result with an error and
\* no documents, and when the title is not resolved the content index is not
\* queried.
C10_SearchNeverRaises ==
    last_op.op = "search"
    => LET out == last_op.out
           fails == last_op.eng.fails
           resolving == Truthy(last_op.article_title)
       IN  /\ ~out.raised
           /\ (resolving /\ ("resolve" \in fails \/ Len(article_catalog) = 0))
              => /\ out.results.error.msg # None
                 /\ out.results.documents = <<>>
                 /\ ~InSeq("content.query", out.engine_calls)
           /\ (InSeq("content.query", out.engine_calls) /\ "content_query" \in fails)
              => /\ out.results.error.msg # None
                 /\ out.results.documents = <<>>
           /\ out.results.error.msg # None => out.results.documents = <<>>

\* the engine fails while the title filter is resolved
C10_Witness ==
    /\ last_op.op = "search"
    /\ Truthy(last_op.article_title)
    /\ Len(article_catalog) > 0
    /\ "resolve" \in last_op.eng.fails
    /\ last_op.out.results.error.msg = "No article found matching"

-----------------------------------------------------------------------------
(* Claims about the tools, checked under SpecTools *)

HasPart(result, kind) == \E i \in 1..Len(result.parts) : result.parts[i].kind = kind

\* C7: the people tool evaluates every supplied filter: whatever the other
\* filters find, the results of a filter that has matches appear in the
\* returned text (no catalog read failing).
C7_FiltersIndependent ==
    (/\ last_op.op = "execute_tool"
     /\ last_op.call.name = PeopleToolName
     /\ ~KwargsMismatch(last_op.call)
     /\ last_op.eng.fails = {})
    => LET call == last_op.call
           eng == last_op.eng
       IN  /\ (/\ Truthy(call.article_title)
               /\ GetPeopleFromArticle(call.article_title, article_catalog, eng) # <<>>)
              => HasPart(last_op.result, "people_in_article")
           /\ (/\ TruthySeq(call.person_name)
               /\ FindArticlesByPerson(call.person_name, article_catalog, eng) # <<>>)
              => HasPart(last_op.result, "person_in_context")
           /\ (/\ TruthySeq(call.role)
               /\ FindPeopleByRole(call.role, article_catalog, eng) # <<>>)
              => HasPart(last_op.result, "people_by_role")

WellIndexed(sources) == \A i \in 1..Len(sources) : sources[i].index = i

\* C9: in the sources list a tool holds, and in the list get_last_sources
\* returns, the i-th entry has index i (so the indexes are positive and
\* pairwise distinct), also when one people lookup fills the list from
\* several of its branches.
C9_SourceIndices ==
    /\ \A t \in ToolNames : WellIndexed(last_sources[t])
    /\ last_op.op = "get_last_sources" => WellIndexed(last_op.out)

\* a people lookup whose three filters all match: sources from every branch
C9_Witness ==
    /\ last_op.op = "execute_tool"
    /\ last_op.call.name = PeopleToolName
    /\ HasPart(last_op.result, "people_in_article")
    /\ HasPart(last_op.result, "person_in_context")
    /\ HasPart(last_op.result, "people_by_role")
    /\ Len(last_sources[PeopleToolName]) > Len(last_op.result.parts)

-----------------------------------------------------------------------------
(* Ingestion: VectorStore.add_article_metadata / add_article_content /     *)
(* clear_all_data (backend/vector_store.py) and                            *)
(* RAGSystem.add_article_document / add_articles_folder                    *)
(* (backend/rag_system.py). The store is the record                        *)
(* [catalog, chunks, live]; every operator returns the store it leaves.    *)

\* most files in one folder
MaxFiles == 2

StoreNow == [catalog |-> article_catalog, chunks |-> article_content, live |-> live]

\* What the engine does during one ingestion call: the call sites whose
\* engine call fails, and what collection.add does with an id that is already
\* stored: it keeps the stored record ("ignore") or raises ("raise"); it never
\* replaces the stored record (that is collection.upsert).
IngestEngine(fails, dup) == [fails |-> fails, dup |-> dup]

\* What process_article_document gives for a file: an Article and the number
\* of its chunks, or an exception (readable = FALSE)
Doc(title, link, people, nchunks) ==
    [readable |-> TRUE, title |-> title, article_link |-> link, people |-> people,
     nchunks |-> nchunks]
UnreadableDoc ==
    [readable |-> FALSE, title |-> None, article_link |-> None, people |-> <<>>,
     nchunks |-> 0]

\* the files the model ingests: two versions of article A1, an article
\* without link, a file without body text, a file that cannot be read
Docs ==
    {Doc("A1", "L1", Art1.people, 2),
     Doc("A1", "L9", <<Person(<<"B">>, <<>>)>>, 3),
     Doc("A2", None, Art2.people, 1),
     Doc("A4", "L4", <<>>, 0),
     UnreadableDoc}

\* the ArticleChunk list of a document: chunk_index 0, 1, ...
ChunksOf(doc) == [i \in 1..doc.nchunks |-> Chunk(doc.title, i - 1)]

\* add_article_content: ids = f"{article_title...}_{chunk_index}" (the titles
\* of Docs hold no space and no colon, which the id would replace or drop)
ChunkId(chunk) == <<chunk.article_title, chunk.chunk_index>>

\* VectorStore.add_article_metadata: article_catalog.add(..., ids=[title]):
\* [raised, st]
AddArticleMetadata(st, article, eng) ==
    IF "add_metadata" \in eng.fails \/ ~st.live.catalog
    THEN [raised |-> TRUE, st |-> st]
    ELSE IF IndexOfTitle(st.catalog, article.title) # {}
    THEN [raised |-> eng.dup = "raise", st |-> st]
    ELSE [raised |-> FALSE,
          st |-> [st EXCEPT !.catalog =
                    Append(@, [title |-> article.title,
                               article_link |-> article.article_link,
                               people |-> article.people])]]

\* the chunks of the list whose id is not stored yet
NewChunks(stored, chunks) ==
    SelectSeq(chunks,
              LAMBDA c : \A i \in 1..Len(stored) : ChunkId(stored[i]) # ChunkId(c))

\* VectorStore.add_article_content: [raised, st]
AddArticleContent(st, chunks, eng) ==
    IF ~TruthySeq(chunks) THEN [raised |-> FALSE, st |-> st]
    ELSE IF "add_content" \in eng.fails \/ ~st.live.content
    THEN [raised |-> TRUE, st |-> st]
    ELSE IF eng.dup = "raise" /\ NewChunks(st.chunks, chunks) # chunks
    THEN [raised |-> TRUE, st |-> st]
    ELSE [raised |-> FALSE,
          st |-> [st EXCEPT !.chunks = @ \o NewChunks(st.chunks, chunks)]]

\* VectorStore.clear_all_data, its k-th engine call failing (0: none): delete
\* the catalog, delete the content, recreate the catalog, recreate the
\* content; deleting a collection that does not exist fails as well. The
\* exception is caught and the store stays as the calls made so far left it.
ClearAllData(st, k) ==
    IF k = 1 \/ ~st.live.catalog THEN st
    ELSE LET s1 == [st EXCEPT !.catalog = <<>>, !.live.catalog = FALSE]
         IN  IF k = 2 \/ ~s1.live.content THEN s1
             ELSE LET s2 == [s1 EXCEPT !.chunks = <<>>, !.live.content = FALSE]
                  IN  IF k = 3 THEN s2
                      ELSE LET s3 == [s2 EXCEPT !.live.catalog = TRUE]
                           IN  IF k = 4 THEN s3
                               ELSE [s3 EXCEPT !.live.content = TRUE]

\* RAGSystem.add_article_document: [added, st]; any exception is caught and
\* (None, 0) returned
AddArticleDocument(st, doc, eng) ==
    IF ~doc.readable THEN [added |-> FALSE, st |-> st]
    ELSE LET m == AddArticleMetadata(st, doc, eng)
             c == AddArticleContent(m.st, ChunksOf(doc), eng)
         IN  IF m.raised THEN [added |-> FALSE, st |-> m.st]
             ELSE [added |-> ~c.raised, st |-> c.st]

\* VectorStore.get_existing_article_titles: the ids of the catalog, [] when
\* the engine call fails
GetExistingArticleTitles(st, eng) ==
    IF "get_titles" \in eng.fails \/ ~st.live.catalog THEN {}
    ELSE {st.catalog[i].title : i \in 1..Len(st.catalog)}

RECURSIVE FolderLoop(_, _, _, _)
\* add_articles_folder: the loop over the files; an exception ends the
\* processing of that file only
FolderLoop(st, existing, files, eng) ==
    IF files = <<>> THEN st
    ELSE LET doc == Head(files)
         IN  IF ~doc.readable \/ doc.title \in existing
             THEN FolderLoop(st, existing, Tail(files), eng)
             ELSE LET m == AddArticleMetadata(st, doc, eng)
                      c == AddArticleContent(m.st, ChunksOf(doc), eng)
                  IN  IF m.raised
                      THEN FolderLoop(m.st, existing, Tail(files), eng)
                      ELSE IF c.raised
                      THEN FolderLoop(c.st, existing, Tail(files), eng)
                      ELSE FolderLoop(c.st, existing \cup {doc.title}, Tail(files), eng)

\* RAGSystem.add_articles_folder (the folder exists)
AddArticlesFolder(st, clear_existing, k, files, eng) ==
    LET s0 == IF clear_existing THEN ClearAllData(st, k) ELSE st
    IN  FolderLoop(s0, GetExistingArticleTitles(s0, eng), files, eng)

\* RAGSystem.add_articles_folder when os.path.exists(folder_path) is false:
\* [returned, st]
AddArticlesFolderMissing(st, clear_existing, k) ==
    [returned |-> <<0, 0>>,
     st |-> IF clear_existing THEN ClearAllData(st, k) ELSE st]

IngestEngines ==
    {IngestEngine(f, d) :
        f \in {{}, {"add_metadata"}, {"add_content"}, {"get_titles"}},
        d \in {"ignore", "raise"}}

\* The engine behaviours that make a difference to one folder run: an id
\* already stored reaches collection.add only when the titles were not read
FolderEngines ==
    {IngestEngine(f, "ignore") : f \in {{}, {"add_content"}, {"get_titles"}}}
    \cup {IngestEngine({"get_titles"}, "raise")}

SetStore(st) ==
    /\ article_catalog' = st.catalog
    /\ article_content' = st.chunks
    /\ live' = st.live

HasTitle(c, t) == IndexOfTitle(c, t) # {}

IngestDocument(doc, eng) ==
    LET r == AddArticleDocument(StoreNow, doc, eng)
    IN  /\ SetStore(r.st)
        /\ last_op' = [op |-> "add_article_document", doc |-> doc,
                       engine_ok |-> eng.fails = {},
                       stored_before |-> HasTitle(article_catalog, doc.title),
                       added |-> r.added]
        /\ UNCHANGED <<docVars, tool_manager, last_sources, slot_writer, loopVars>>

IngestFolder(clear_existing, k, files, eng) ==
    /\ SetStore(AddArticlesFolder(StoreNow, clear_existing, k, files, eng))
    /\ last_op' = [op |-> "add_articles_folder"]
    /\ UNCHANGED <<docVars, tool_manager, last_sources, slot_writer, loopVars>>

IngestMissingFolder(clear_existing, k) ==
    LET r == AddArticlesFolderMissing(StoreNow, clear_existing, k)
    IN  /\ SetStore(r.st)
        /\ last_op' = [op |-> "add_articles_folder", folder_exists |-> FALSE,
                       clear_existing |-> clear_existing, returned |-> r.returned]
        /\ UNCHANGED <<docVars, tool_manager, last_sources, slot_writer, loopVars>>

IngestClear(k) ==
    /\ SetStore(ClearAllData(StoreNow, k))
    /\ last_op' = [op |-> "clear_all_data"]
    /\ UNCHANGED <<docVars, tool_manager, last_sources, slot_writer, loopVars>>

NextIngest ==
    \/ \E doc \in Docs, eng \in IngestEngines : IngestDocument(doc, eng)
    \/ \E clear_existing \in BOOLEAN, k \in 0..4, eng \in FolderEngines :
          \E files \in SeqsUpTo(Docs, MaxFiles) :
             /\ (~clear_existing => k = 0)
             /\ IngestFolder(clear_existing, k, files, eng)
    \/ \E clear_existing \in BOOLEAN, k \in 0..4 :
          /\ (~clear_existing => k = 0)
          /\ IngestMissingFolder(clear_existing, k)
    \/ \E k \in 0..4 : IngestClear(k)

SpecIngest == Init /\ [][NextIngest]_vars

-----------------------------------------------------------------------------
(* Claims about ingestion, checked under SpecIngest *)

\* C11: the catalog holds one entry per title, and adding an article whose
\* title is already stored (no engine call failing) replaces the stored
\* entry: its link and its people are those of the article just added.
C11_AddOverwritesByTitle ==
    /\ \A i, j \in 1..Len(article_catalog) :
          article_catalog[i].title = article_catalog[j].title => i = j
    /\ (/\ last_op.op = "add_article_document"
        /\ last_op.doc.readable
        /\ last_op.stored_before
        /\ last_op.engine_ok)
       => \E i \in 1..Len(article_catalog) :
             /\ article_catalog[i].title = last_op.doc.title
             /\ article_catalog[i].article_link = last_op.doc.article_link
             /\ article_catalog[i].people = last_op.doc.people

\* C12: every chunk of the content index carries the title of an entry of
\* the catalog, in every state ingestion and clearing can reach, engine
\* failures included.
C12_ChunksReferenceCatalog ==
    \A i \in 1..Len(article_content) :
        HasTitle(article_catalog, article_content[i].article_title)

-----------------------------------------------------------------------------
(* DocumentProcessor.chunk_text (backend/document_processor.py). A text is *)
(* a sequence of words (what re.sub(r"\s+", " ", text.strip()) leaves      *)
(* between the blanks); a word is an atomic string whose characters        *)
(* CharsOf gives.                                                          *)

\* most words in one text
MaxTokens == 4

CharsOf(w) ==
    CASE w = "Big" -> <<"B", "i", "g">>
      [] w = "x" -> <<"x">>
      [] w = "end." -> <<"e", "n", "d", ".">>
      [] w = "So!" -> <<"S", "o", "!">>
      [] w = "Go." -> <<"G", "o", ".">>
      [] w = "a.m." -> <<"a", ".", "m", ".">>
      [] w = "Titular:" -> <<"T", "i", "t", "u", "l", "a", "r", ":">>
      [] w = "TITULAR:" -> <<"T", "I", "T", "U", "L", "A", "R", ":">>
      [] w = "Title:" -> <<"T", "i", "t", "l", "e", ":">>
      [] w = "Enlace:" -> <<"E", "n", "l", "a", "c", "e", ":">>
      [] w = "Personas" -> <<"P", "e", "r", "s", "o", "n", "a", "s">>
      [] w = "Mencionadas:" -> <<"M", "e", "n", "c", "i", "o", "n", "a", "d", "a", "s", ":">>
      [] w = "Test" -> <<"T", "e", "s", "t">>
      [] w = "http://x" -> <<"h", "t", "t", "p", ":", "/", "/", "x">>
      [] w = "Body" -> <<"B", "o", "d", "y">>
      [] w = "line." -> <<"l", "i", "n", "e", ".">>
      [] w = "-" -> <<"-">>
      [] w = "|" -> <<"|">>
      [] w = "Ana" -> <<"A", "n", "a">>
      [] w = "f.txt" -> <<"f", ".", "t", "x", "t">>
      [] OTHER -> <<>>

UpperChars == {"A", "B", "E", "G", "I", "L", "M", "P", "R", "S", "T", "U"}
LowerChars == {"a", "c", "d", "e", "g", "h", "i", "l", "m", "n", "o", "p", "r",
               "s", "t", "u", "x", "y"}
\* \w
WordChars == UpperChars \cup LowerChars

\* len(word)
WordLen(w) == Len(CharsOf(w))

RECURSIVE TextLen(_)
\* len(" ".join(words))
TextLen(words) ==
    IF words = <<>> THEN 0
    ELSE IF Len(words) = 1 THEN WordLen(words[1])
    ELSE WordLen(Head(words)) + 1 + TextLen(Tail(words))

\* (?<=\.|\!|\?): the character before the blank ends a sentence
EndsSentence(w) ==
    LET c == CharsOf(w) IN Len(c) > 0 /\ c[Len(c)] \in {".", "!", "?"}

\* (?<!\w\.\w.): the four characters before the blank are not like "a.m."
DottedAbbreviation(w) ==
    LET c == CharsOf(w)
        n == Len(c)
    IN  n >= 4 /\ c[n - 3] \in WordChars /\ c[n - 2] = "." /\ c[n - 1] \in WordChars

\* (?<![A-Z][a-z]\.): the three characters before the blank are not like "Dr."
TitleAbbreviation(w) ==
    LET c == CharsOf(w)
        n == Len(c)
    IN  n >= 3 /\ c[n - 2] \in UpperChars /\ c[n - 1] \in LowerChars /\ c[n] = "."

\* (?=[A-Z]): the character after the blank is a capital letter
StartsUpper(w) == LET c == CharsOf(w) IN Len(c) > 0 /\ c[1] \in UpperChars

\* sentence_endings matches the blank between the words w and next
SentenceEnding(w, next) ==
    /\ EndsSentence(w)
    /\ ~DottedAbbreviation(w)
    /\ ~TitleAbbreviation(w)
    /\ StartsUpper(next)

RECURSIVE SplitSentences(_, _)
\* sentence_endings.split(text): the sentences, each a sequence of words;
\* `current` is the sentence being collected
SplitSentences(current, words) ==
    IF words = <<>> THEN (IF current = <<>> THEN <<>> ELSE <<current>>)
    ELSE IF Len(words) > 1 /\ SentenceEnding(words[1], words[2])
    THEN <<Append(current, Head(words))>> \o SplitSentences(<<>>, Tail(words))
    ELSE SplitSentences(Append(current, Head(words)), Tail(words))

\* the sentences of a text
Sentences(text) == SplitSentences(<<>>, text)

\* space_size = 1 if current_chunk else 0
SpaceSizeNone(count) == 0
SpaceSize(count) == IF count > 0 THEN 1 ELSE 0

RECURSIVE BuildChunk(_, _, _, _, _)
\* the `for j in range(i, len(sentences))` loop: how many sentences, from
\* sentence j on, the chunk takes after the `count` it holds
BuildChunk(sentences, j, count, current_size, chunk_size) ==
    IF j > Len(sentences) THEN count
    ELSE LET total_addition == TextLen(sentences[j]) + SpaceSize(count)
         IN  IF current_size + total_addition > chunk_size /\ count > 0
             THEN count
             ELSE BuildChunk(sentences, j + 1, count + 1,
                             current_size + total_addition, chunk_size)

\* sentence_len of the k-th sentence (from 0) of a chunk of n sentences
OverlapSentenceLenBare(current_chunk, k) == TextLen(current_chunk[k + 1])
OverlapSentenceLen(current_chunk, k) ==
    TextLen(current_chunk[k + 1]) + (IF k < Len(current_chunk) - 1 THEN 1 ELSE 0)

RECURSIVE OverlapSentences(_, _, _, _, _)
\* the `for k in range(len(current_chunk) - 1, -1, -1)` loop: overlap_sentences
OverlapSentences(current_chunk, k, overlap_size, overlap_sentences, chunk_overlap) ==
    IF k < 0 THEN overlap_sentences
    ELSE IF overlap_size + OverlapSentenceLen(current_chunk, k) <= chunk_overlap
    THEN OverlapSentences(current_chunk, k - 1,
                          overlap_size + OverlapSentenceLen(current_chunk, k),
                          overlap_sentences + 1, chunk_overlap)
    ELSE overlap_sentences

Max(a, b) == IF a >= b THEN a ELSE b

\* where the next chunk starts, after a chunk of `count` sentences from i
NextStartSkipping(sentences, i, count, chunk_overlap) == i + count + 1
NextStartStalling(sentences, i, count, chunk_overlap) ==
    IF chunk_overlap > 0
    THEN i + count - OverlapSentences(SubSeq(sentences, i, i + count - 1), count - 1,
                                      0, 0, chunk_overlap)
    ELSE i + count
NextStart(sentences, i, count, chunk_overlap) ==
    IF chunk_overlap > 0
    THEN LET current_chunk == SubSeq(sentences, i, i + count - 1)
             overlap_sentences == OverlapSentences(current_chunk, count - 1, 0, 0,
                                                   chunk_overlap)
         IN  Max(i + count - overlap_sentences, i + 1)
    ELSE i + count

RECURSIVE ChunkRanges(_, _, _, _)
\* the `while i < len(sentences)` loop: the chunks as ranges of sentences
\* (i counts from 1)
ChunkRanges(sentences, i, chunk_size, chunk_overlap) ==
    IF i > Len(sentences) THEN <<>>
    ELSE LET count == BuildChunk(sentences, i, 0, 0, chunk_size)
         IN  IF count > 0
             THEN <<[first |-> i, last |-> i + count - 1]>>
                  \o ChunkRanges(sentences, NextStart(sentences, i, count, chunk_overlap),
                                 chunk_size, chunk_overlap)
             ELSE ChunkRanges(sentences, i + 1, chunk_size, chunk_overlap)

RECURSIVE JoinSentences(_)
\* " ".join(current_chunk), as a sequence of words
JoinSentences(ss) == IF ss = <<>> THEN <<>> ELSE Head(ss) \o JoinSentences(Tail(ss))

\* DocumentProcessor.chunk_text: the chunks, each with the range of sentences
\* it was built from and its string (a sequence of words)
ChunkText(text, chunk_size, chunk_overlap) ==
    LET sentences == Sentences(text)
        ranges == ChunkRanges(sentences, 1, chunk_size, chunk_overlap)
    IN  [k \in 1..Len(ranges) |->
            [first |-> ranges[k].first, last |-> ranges[k].last,
             words |-> JoinSentences(SubSeq(sentences, ranges[k].first, ranges[k].last))]]

TextWords == {"Big", "x", "end.", "So!", "Go.", "a.m."}
Texts == SeqsUpTo(TextWords, MaxTokens)
Processors ==
    {[chunk_size |-> cs, chunk_overlap |-> co] : cs \in {4, 7, 12}, co \in {0, 3, 6, 12}}

InitChunk ==
    /\ InitSystem
    /\ article_catalog = <<>>
    /\ processor \in Processors
    /\ doc_text \in Texts
    /\ doc_file = NoFile
    /\ tool_manager = RagTools

\* chunk_text(doc_text)
ChunkTextCall ==
    /\ last_op' = [op |-> "chunk_text", sentences |-> Sentences(doc_text),
                   chunks |-> ChunkText(doc_text, processor.chunk_size,
                                        processor.chunk_overlap)]
    /\ UNCHANGED <<storeVars, docVars, tool_manager, last_sources, slot_writer, loopVars>>

NextChunk == ChunkTextCall

SpecChunk == InitChunk /\ [][NextChunk]_vars

-----------------------------------------------------------------------------
(* Claims about chunk_text, checked under SpecChunk *)

\* the sentences of chunk k that the chunk before it does not hold
RECURSIVE Distinctive(_, _)
Distinctive(chunks, k) ==
    IF k > Len(chunks) THEN <<>>
    ELSE LET from == IF k = 1 THEN chunks[k].first
                     ELSE Max(chunks[k].first, chunks[k - 1].last + 1)
         IN  [i \in 1..(chunks[k].last - from + 1) |-> from + i - 1]
             \o Distinctive(chunks, k + 1)

\* C13: every chunk is a run of consecutive sentences of the text, in order,
\* and the chunks' sentences that the previous chunk does not hold,
\* concatenated, are the sentences of the text, each once and in order.
C13_ChunksCoverSentences ==
    last_op.op = "chunk_text"
    => LET chunks == last_op.chunks
           sentences == last_op.sentences
       IN  /\ \A k \in 1..Len(chunks) :
                /\ 1 <= chunks[k].first /\ chunks[k].first <= chunks[k].last
                /\ chunks[k].last <= Len(sentences)
                /\ chunks[k].words =
                      JoinSentences(SubSeq(sentences, chunks[k].first, chunks[k].last))
                /\ k > 1 => /\ chunks[k].first > chunks[k - 1].first
                            /\ chunks[k].first <= chunks[k - 1].last + 1
           /\ Distinctive(chunks, 1) = [i \in 1..Len(sentences) |-> i]

\* three chunks or more, the second one repeating a sentence of the first
C13_Witness ==
    /\ last_op.op = "chunk_text"
    /\ Len(last_op.chunks) >= 3
    /\ last_op.chunks[1].last > last_op.chunks[1].first
    /\ last_op.chunks[2].first <= last_op.chunks[1].last
    /\ last_op.chunks[2].last > last_op.chunks[1].last

\* C14: no chunk is empty, and a chunk is longer than chunk_size only if it
\* is one sentence that alone is longer than chunk_size.
C14_ChunkSizeBound ==
    last_op.op = "chunk_text"
    => \A k \in 1..Len(last_op.chunks) :
          LET c == last_op.chunks[k]
          IN  /\ c.words # <<>>
              /\ TextLen(c.words) > 0
              /\ \/ TextLen(c.words) <= processor.chunk_size
                 \/ /\ c.first = c.last
                    /\ TextLen(last_op.sentences[c.first]) > processor.chunk_size

\* a chunk of two sentences that fills chunk_size exactly, and a chunk that
\* is one sentence longer than chunk_size
C14_Witness ==
    /\ last_op.op = "chunk_text"
    /\ \E k \in 1..Len(last_op.chunks) :
          /\ last_op.chunks[k].last > last_op.chunks[k].first
          /\ TextLen(last_op.chunks[k].words) = processor.chunk_size
    /\ \E k \in 1..Len(last_op.chunks) :
          TextLen(last_op.chunks[k].words) > processor.chunk_size

\* the sentences chunk k repeats from chunk k-1, joined
Repeated(chunks, sentences, k) ==
    JoinSentences(SubSeq(sentences, chunks[k].first, chunks[k - 1].last))

\* C15: the sentences a chunk repeats from the chunk before it are, joined
\* by blanks, at most chunk_overlap characters long; with chunk_overlap <= 0
\* no sentence is in two chunks.
C15_OverlapBound ==
    last_op.op = "chunk_text"
    => LET chunks == last_op.chunks
       IN  /\ \A k \in 2..Len(chunks) :
                TextLen(Repeated(chunks, last_op.sentences, k)) <= processor.chunk_overlap
           /\ processor.chunk_overlap <= 0
              => \A k, l \in 1..Len(chunks) :
                    k < l => chunks[k].last < chunks[l].first

\* a chunk of three sentences whose last sentence alone is repeated, the last
\* two being too long for chunk_overlap
C15_Witness ==
    /\ last_op.op = "chunk_text"
    /\ Len(last_op.chunks) >= 2
    /\ last_op.chunks[1].last = last_op.chunks[1].first + 2
    /\ last_op.chunks[2].first = last_op.chunks[1].last
    /\ TextLen(JoinSentences(SubSeq(last_op.sentences, last_op.chunks[1].first + 1,
                                    last_op.chunks[1].last)))
          > processor.chunk_overlap

-----------------------------------------------------------------------------
(* DocumentProcessor.process_article_document                              *)
(* (backend/document_processor.py). A file is its name and its lines; a    *)
(* line is a sequence of words, separated by one blank each. What the      *)
(* parser extracts from a line (title, link, person fields) is a sequence  *)
(* of characters.                                                          *)

\* most lines in one file
MaxLines == 3

\* re.IGNORECASE: a character with its case folded
FoldChar(c) ==
    CASE c = "A" -> "a" [] c = "B" -> "b" [] c = "E" -> "e" [] c = "G" -> "g"
      [] c = "I" -> "i" [] c = "L" -> "l" [] c = "M" -> "m" [] c = "P" -> "p"
      [] c = "R" -> "r" [] c = "S" -> "s" [] c = "T" -> "t" [] c = "U" -> "u"
      [] OTHER -> c
Fold(chars) == [i \in 1..Len(chars) |-> FoldChar(chars[i])]

RECURSIVE LineChars(_)
\* the characters of a line
LineChars(words) ==
    IF words = <<>> THEN <<>>
    ELSE IF Len(words) = 1 THEN CharsOf(words[1])
    ELSE CharsOf(Head(words)) \o <<" ">> \o LineChars(Tail(words))

RECURSIVE LStrip(_, _)
\* str.lstrip(chars)
LStrip(chars, drop) ==
    IF chars # <<>> /\ Head(chars) \in drop THEN LStrip(Tail(chars), drop) ELSE chars

RECURSIVE RStrip(_, _)
RStrip(chars, drop) ==
    IF chars # <<>> /\ chars[Len(chars)] \in drop
    THEN RStrip(SubSeq(chars, 1, Len(chars) - 1), drop)
    ELSE chars

\* str.strip()
Strip(chars) == RStrip(LStrip(chars, {" "}), {" "})

\* the markers of the file format, case folded
TitleMarkerEnglish == <<"t", "i", "t", "l", "e", ":">>
TitleMarker == <<"t", "i", "t", "u", "l", "a", "r", ":">>
LinkMarker == <<"e", "n", "l", "a", "c", "e", ":">>

\* re.match(r"^<marker>\s*(.+)$", line, re.IGNORECASE): group(1).strip(), the
\* empty sequence when the line does not match
MarkerMatch(line, marker) ==
    LET chars == LineChars(line)
    IN  IF Len(chars) > Len(marker) /\ Fold(SubSeq(chars, 1, Len(marker))) = marker
        THEN Strip(SubSeq(chars, Len(marker) + 1, Len(chars)))
        ELSE <<>>

\* re.match(r"^Personas\s+Mencionadas:\s*$", line, re.IGNORECASE)
PeopleSectionMatch(line) ==
    /\ Len(line) = 2
    /\ Fold(CharsOf(line[1])) = Fold(CharsOf("Personas"))
    /\ Fold(CharsOf(line[2])) = Fold(CharsOf("Mencionadas:"))

\* line.startswith("-")
StartsWithDash(line) == line # <<>> /\ Head(LineChars(line)) = "-"

RECURSIVE SplitOn(_, _, _)
\* str.split(sep): the parts, `current` being the part collected so far
SplitOn(current, chars, sep) ==
    IF chars = <<>> THEN <<current>>
    ELSE IF Head(chars) = sep THEN <<current>> \o SplitOn(<<>>, Tail(chars), sep)
    ELSE SplitOn(Append(current, Head(chars)), Tail(chars), sep)

\* DocumentProcessor._parse_person_line: [found, person]
ParsePersonLine(line) ==
    LET line_content == Strip(LStrip(LineChars(line), {"-", " "}))
        raw == SplitOn(<<>>, line_content, "|")
        parts == [i \in 1..Len(raw) |-> Strip(raw[i])]
    IN  IF parts[1] = <<>>
        THEN [found |-> FALSE, person |-> Person(<<>>, <<>>)]
        ELSE [found |-> TRUE,
              person |-> Person(parts[1], IF Len(parts) > 1 THEN parts[2] ELSE <<>>)]

\* the parser's variables before the first line
ParseStart(filename) ==
    [article_title |-> CharsOf(filename), article_link |-> <<>>, article_people |-> <<>>,
     article_content_lines |-> <<>>, in_people_section |-> FALSE]

\* one iteration of the `while i < len(lines)` loop
ParseLine(st, line) ==
    IF MarkerMatch(line, TitleMarker) # <<>>
    THEN [st EXCEPT !.article_title = MarkerMatch(line, TitleMarker)]
    ELSE IF PeopleSectionMatch(line)
    THEN [st EXCEPT !.in_people_section = TRUE]
    ELSE IF MarkerMatch(line, LinkMarker) # <<>>
    THEN [st EXCEPT !.article_link = MarkerMatch(line, LinkMarker),
                    !.in_people_section = FALSE]
    ELSE IF st.in_people_section /\ StartsWithDash(line)
    THEN IF ParsePersonLine(line).found
         THEN [st EXCEPT !.article_people = Append(@, ParsePersonLine(line).person)]
         ELSE st
    ELSE LET s1 == IF st.in_people_section /\ line # <<>> /\ ~StartsWithDash(line)
                   THEN [st EXCEPT !.in_people_section = FALSE] ELSE st
         IN  IF line # <<>> /\ ~s1.in_people_section
             THEN [s1 EXCEPT !.article_content_lines = Append(@, line)]
             ELSE s1

RECURSIVE ParseLines(_, _)
ParseLines(st, lines) ==
    IF lines = <<>> THEN st ELSE ParseLines(ParseLine(st, Head(lines)), Tail(lines))

\* "\n".join(article_content_lines), as chunk_text sees it: the words
BodyText(content_lines) == JoinSentences(content_lines)

\* DocumentProcessor.process_article_document: [article, article_chunks]
ProcessArticleDocument(file, chunk_size, chunk_overlap) ==
    LET st == ParseLines(ParseStart(file.name), file.lines)
        chunks == ChunkText(BodyText(st.article_content_lines), chunk_size, chunk_overlap)
    IN  [article |-> [title |-> st.article_title, article_link |-> st.article_link,
                      people |-> st.article_people],
         article_chunks |->
            [k \in 1..Len(chunks) |->
                [content |-> [prefix_title |-> st.article_title, words |-> chunks[k].words],
                 article_title |-> st.article_title,
                 chunk_index |-> k - 1]]]

\* the lines the model's files are made of
FileLines ==
    {<<"Titular:", "Test">>, <<"TITULAR:", "Test">>, <<"Title:", "Test">>,
     <<"Titular:">>, <<"Enlace:", "http://x">>, <<"Body", "line.">>,
     <<"Personas", "Mencionadas:">>, <<"-", "Ana", "|", "Test">>, <<"-", "|", "Test">>,
     <<>>}

Files == {[name |-> "f.txt", lines |-> ls] : ls \in SeqsUpTo(FileLines, MaxLines)}

InitParse ==
    /\ InitSystem
    /\ article_catalog = <<>>
    /\ processor = DefaultProcessor
    /\ doc_text = <<>>
    /\ doc_file \in Files
    /\ tool_manager = RagTools

\* process_article_document(doc_file)
ProcessCall ==
    /\ last_op' = [op |-> "process_article_document",
                   body |-> BodyText(ParseLines(ParseStart(doc_file.name),
                                                doc_file.lines).article_content_lines),
                   out |-> ProcessArticleDocument(doc_file, processor.chunk_size,
                                                  processor.chunk_overlap)]
    /\ UNCHANGED <<storeVars, docVars, tool_manager, last_sources, slot_writer, loopVars>>

NextParse == ProcessCall

SpecParse == InitParse /\ [][NextParse]_vars

-----------------------------------------------------------------------------
(* Claims about process_article_document, checked under SpecParse *)

ScenarioFile(first_line) ==
    <<first_line, <<"Enlace:", "http://x">>, <<"Body", "line.">>>>

\* what the scenario expects of the parsed file: title "Test", link
\* "http://x", no people, one chunk, which contains "Body line."
ScenarioOutcome(out) ==
    /\ out.article.title = CharsOf("Test")
    /\ out.article.article_link = CharsOf("http://x")
    /\ out.article.people = <<>>
    /\ Len(out.article_chunks) = 1
    /\ Contains(<<"Body", "line.">>, out.article_chunks[1].content.words)

-----------------------------------------------------------------------------
(* Claims about ToolManager.execute_tool, checked under SpecTools *)

\* C17: execute_tool with a name that is not registered returns the message
\* "Tool '<name>' not found", does not raise, and leaves every tool's
\* last_sources and the store as they were, whatever the engine would do if a
\* tool were run; with a registered name it returns what that tool's execute
\* returns, and raises when that raises.
C17_ExecuteToolLookup ==
    [][last_op'.op = "execute_tool"
       => LET call == last_op'.call
              eng == last_op'.eng
          IN  /\ call.name \notin ToolNames
                 => /\ ~last_op'.raised
                    /\ last_op'.result = Message("Tool not found", call.name, <<>>)
                    /\ last_sources' = last_sources
                    /\ UNCHANGED storeVars
                    /\ \A e \in SearchEngines(article_catalog, article_content) :
                          ExecuteTool(call, last_sources, article_catalog,
                                      article_content, e).result = last_op'.result
              /\ (call.name = SearchToolName /\ ~KwargsMismatch(call))
                 => LET r == ArticleSearchExecute("q", call.article_title,
                                                  last_sources[SearchToolName],
                                                  article_catalog, article_content, eng)
                    IN  /\ last_op'.raised = r.raised
                        /\ last_op'.result = r.result
              /\ (call.name = PeopleToolName /\ ~KwargsMismatch(call))
                 => LET r == PeopleSearchExecute(call.article_title, call.person_name,
                                                 call.role, article_catalog, eng)
                    IN  /\ last_op'.raised = r.raised
                        /\ last_op'.result = r.result]_vars

\* an unknown tool was asked for while a registered tool holds sources
C17_Witness ==
    /\ last_op.op = "execute_tool"
    /\ last_op.call.name \notin ToolNames
    /\ last_op.result.msg = "Tool not found"
    /\ \E t \in ToolNames : last_sources[t] # <<>>

-----------------------------------------------------------------------------
(* ToolManager.register_tool (backend/search_tools.py). The registry is the *)
(* dict self.tools; a tool is an object (its identity) with the definition  *)
(* get_tool_definition() returns.                                           *)

\* a definition's "name": a key that is missing reads as None
NoName == "None"
EmptyName == ""

\* tool definitions: without a "name" key, with an empty name, with a name
ToolDefNames == {NoName, EmptyName, "test_tool", "other_tool", SearchToolName}

ToolObjects == {"mock_1", "mock_2", "search_tool"}

CandidateTools == {[tool |-> t, name |-> n] : t \in ToolObjects, n \in ToolDefNames}

\* tool_name in self.tools
Registered(reg, name) == \E i \in 1..Len(reg) : reg[i].name = name

\* self.tools[tool_name]
Lookup(reg, name) == reg[CHOOSE i \in 1..Len(reg) : reg[i].name = name].tool

\* self.tools[tool_name] = tool: a key that is present keeps its position
SetItem(reg, name, tool) ==
    IF Registered(reg, name)
    THEN [i \in 1..Len(reg) |-> IF reg[i].name = name THEN [reg[i] EXCEPT !.tool = tool]
                                ELSE reg[i]]
    ELSE Append(reg, [name |-> name, tool |-> tool])

\* register_tool rejecting only a missing name (tool_name is None)
RegisterToolNoneOnly(reg, tool) ==
    IF tool.name = NoName
    THEN [raised |-> "ValueError", tools |-> reg]
    ELSE [raised |-> "None", tools |-> SetItem(reg, tool.name, tool.tool)]

\* ToolManager.register_tool: [raised, tools]
RegisterTool(reg, tool) ==
    IF tool.name \in {NoName, EmptyName}
    THEN [raised |-> "ValueError", tools |-> reg]
    ELSE [raised |-> "None", tools |-> SetItem(reg, tool.name, tool.tool)]

\* ToolManager(): an empty registry, or the one RAGSystem set up
InitRegistry ==
    /\ InitSystem
    /\ article_catalog = <<>>
    /\ processor = DefaultProcessor
    /\ doc_text = <<>>
    /\ doc_file = NoFile
    /\ tool_manager \in {<<>>, RagTools}

RegisterCall(tool) ==
    LET r == RegisterTool(tool_manager, tool)
    IN  /\ tool_manager' = r.tools
        /\ last_op' = [op |-> "register_tool", tool |-> tool, raised |-> r.raised]
        /\ UNCHANGED <<storeVars, docVars, last_sources, slot_writer, loopVars>>

NextRegistry == \E tool \in CandidateTools : RegisterCall(tool)

SpecRegistry == InitRegistry /\ [][NextRegistry]_vars

-----------------------------------------------------------------------------
(* Claims about register_tool, checked under SpecRegistry *)

\* C18: register_tool of a tool whose definition has no name or an empty
\* name raises ValueError and leaves the registry as it was; with a non-empty
\* name it does not raise, the registry afterwards maps that name to the
\* tool, and every other name is mapped as before.
C18_RegisterToolName ==
    [][last_op'.op = "register_tool"
       => LET tool == last_op'.tool
          IN  /\ tool.name \in {NoName, EmptyName}
                 => /\ last_op'.raised = "ValueError"
                    /\ tool_manager' = tool_manager
              /\ tool.name \notin {NoName, EmptyName}
                 => /\ last_op'.raised = "None"
                    /\ Registered(tool_manager', tool.name)
                    /\ Lookup(tool_manager', tool.name) = tool.tool
                    /\ \A n \in ToolDefNames \cup ToolNames :
                          n # tool.name
                          => /\ Registered(tool_manager', n) = Registered(tool_manager, n)
                             /\ Registered(tool_manager, n) => Lookup(tool_manager', n) = Lookup(tool_manager, n)]_vars

\* a tool with an empty name was refused by a registry that holds tools, and
\* a named tool replaced another under its name
C18_Witness ==
    /\ last_op.op = "register_tool"
    /\ last_op.tool.name = EmptyName
    /\ last_op.raised = "ValueError"
    /\ Registered(tool_manager, "test_tool")
    /\ Registered(tool_manager, SearchToolName)
    /\ Lookup(tool_manager, SearchToolName) = "mock_2"

-----------------------------------------------------------------------------
(* VectorStore.get_all_people_with_frequency on its own: the catalog is an  *)
(* input.                                                                   *)

\* most articles in the catalog
MaxArticles == 3

\* the people lists an article may carry; the last one names one person twice
PeopleLists ==
    {<<>>,
     <<Person(<<"A", "b">>, <<"C">>)>>,
     <<Person(<<"B">>, <<>>)>>,
     <<Person(<<"A", "b">>, <<"C">>), Person(<<"B">>, <<>>)>>,
     <<Person(<<"B">>, <<>>), Person(<<"b">>, <<"c">>)>>}

ArticleTitles == <<"A1", "A2", "A3", "A4">>

\* catalogs of up to MaxArticles articles
Catalogs ==
    {[i \in 1..Len(ps) |-> [title |-> ArticleTitles[i], article_link |-> None,
                             people |-> ps[i]]] :
        ps \in SeqsUpTo(PeopleLists, MaxArticles)}

InitPeople ==
    /\ article_catalog \in Catalogs
    /\ article_content = <<>>
    /\ InitIdle
    /\ processor = DefaultProcessor
    /\ doc_text = <<>>
    /\ doc_file = NoFile
    /\ tool_manager = RagTools

\* get_all_people_with_frequency()
AllPeopleCall(eng) ==
    /\ last_op' = [op |-> "get_all_people_with_frequency", eng |-> eng,
                   out |-> GetAllPeopleWithFrequency(article_catalog, eng)]
    /\ UNCHANGED <<storeVars, docVars, tool_manager, last_sources, slot_writer, loopVars>>

NextPeople ==
    \E f \in {{}, {"all_people"}} : AllPeopleCall(Engine(f, <<>>, 0))

SpecPeople == InitPeople /\ [][NextPeople]_vars

-----------------------------------------------------------------------------
(* Claims about get_all_people_with_frequency, checked under SpecPeople *)

\* the number of articles of the catalog that mention the person with this
\* case-folded name
ArticleCount(c, key) ==
    Cardinality({i \in 1..Len(c) :
                    \E k \in 1..Len(c[i].people) : Lower(c[i].people[k].nombre) = key})

\* C19: the list is in non-increasing order of frecuencia, and a person who
\* appears in strictly more articles than another is listed before them.
C19_FrequencyOrder ==
    last_op.op = "get_all_people_with_frequency"
    => LET out == last_op.out
       IN  /\ \A i, j \in 1..Len(out) :
                 i < j => out[i].frecuencia >= out[j].frecuencia
           /\ \A i, j \in 1..Len(out) :
                 ArticleCount(article_catalog, out[i].key)
                    > ArticleCount(article_catalog, out[j].key)
                 => i < j

-----------------------------------------------------------------------------
(* Claims about a failing model call, checked under Spec *)

\* the model calls of caller p's current query that raised
RaisedCalls(p) == {k \in 1..Len(api_log[p]) : api_log[p][k].response = ApiError}

\* C20: a model call that raises, be it the call of the first round, of the
\* second round or the final call without tools, is the last model call of
\* its query, and the query ends with that exception: neither the failed
\* call nor any other is made afterwards.
C20_ApiErrorPropagates ==
    \A k \in RaisedCalls(1) :
        /\ k = Len(api_log[1])
        /\ outcome[1] = Raised("api")
        /\ pc[1] = "done"

\* the final call, made without tools after two rounds, raised
C20_Witness ==
    /\ Len(api_log[1]) = MAX_TOOL_ROUNDS + 1
    /\ RaisedCalls(1) = {MAX_TOOL_ROUNDS + 1}
    /\ ~api_log[1][MAX_TOOL_ROUNDS + 1].tools
    /\ outcome[1].kind = "raised"

\* the call of the first round raised
C20_WitnessFirstRound ==
    /\ RaisedCalls(1) = {1}
    /\ outcome[1].kind = "raised"

\* the call of the second round raised
C20_WitnessSecondRound ==
    /\ RaisedCalls(1) = {MAX_TOOL_ROUNDS}
    /\ api_log[1][MAX_TOOL_ROUNDS].tools
    /\ outcome[1].kind = "raised"

-----------------------------------------------------------------------------
(* Claims about ToolManager.get_last_sources, checked under SpecTools *)

\* C21: get_last_sources returns the last_sources of the first tool, in
\* registration order (content search, then people), whose slot is not
\* empty, the empty list when every slot is empty, and leaves every slot as
\* it was.
C21_FirstNonEmptySlot ==
    [][last_op'.op = "get_last_sources"
       => /\ last_sources' = last_sources
          /\ last_op'.out =
                IF last_sources[RagTools[1].name] # <<>>
                THEN last_sources[RagTools[1].name]
                ELSE IF last_sources[RagTools[2].name] # <<>>
                THEN last_sources[RagTools[2].name]
                ELSE <<>>]_vars

\* both tools hold sources, and the content search tool's were returned
C21_Witness ==
    /\ last_op.op = "get_last_sources"
    /\ last_sources[SearchToolName] # <<>>
    /\ last_sources[PeopleToolName] # <<>>
    /\ last_sources[SearchToolName] # last_sources[PeopleToolName]
    /\ last_op.out = last_sources[SearchToolName]

-----------------------------------------------------------------------------
(* chunk_text step by step: one action per iteration of its                 *)
(* `while i < len(sentences)` loop, for the claim that the loop ends.       *)
(* last_op holds the loop's variables: the sentences, i (from 1) and the    *)
(* chunks appended so far.                                                  *)

\* the texts the loop is run on: words of one, three and four characters
LoopTexts == SeqsUpTo({"Big", "x", "end.", "So!"}, MaxTokens)

InitChunkLoop ==
    /\ InitSystem
    /\ article_catalog = <<>>
    /\ processor \in Processors
    /\ doc_text \in LoopTexts
    /\ doc_file = NoFile
    /\ tool_manager = RagTools

\* lines 28-42: the sentences are split, i = 0, chunks = []
ChunkLoopStart ==
    /\ last_op.op = "init"
    /\ last_op' = [op |-> "chunk_loop", sentences |-> Sentences(doc_text), i |-> 1,
                   chunks |-> <<>>]
    /\ UNCHANGED <<storeVars, docVars, tool_manager, last_sources, slot_writer, loopVars>>

\* one iteration of the while loop
ChunkLoopIterate ==
    /\ last_op.op = "chunk_loop"
    /\ last_op.i <= Len(last_op.sentences)
    /\ LET sentences == last_op.sentences
           i == last_op.i
           count == BuildChunk(sentences, i, 0, 0, processor.chunk_size)
       IN  last_op' =
              IF count > 0
              THEN [last_op EXCEPT
                      !.chunks = Append(@, [first |-> i, last |-> i + count - 1,
                                            words |-> JoinSentences(
                                                SubSeq(sentences, i, i + count - 1))]),
                      !.i = NextStart(sentences, i, count, processor.chunk_overlap)]
              ELSE [last_op EXCEPT !.i = i + 1]
    /\ UNCHANGED <<storeVars, docVars, tool_manager, last_sources, slot_writer, loopVars>>

\* the loop condition fails: return chunks
ChunkLoopReturn ==
    /\ last_op.op = "chunk_loop"
    /\ last_op.i > Len(last_op.sentences)
    /\ last_op' = [op |-> "chunk_text", sentences |-> last_op.sentences,
                   chunks |-> last_op.chunks]
    /\ UNCHANGED <<storeVars, docVars, tool_manager, last_sources, slot_writer, loopVars>>

NextChunkLoop == ChunkLoopStart \/ ChunkLoopIterate \/ ChunkLoopReturn

\* chunk_text runs on its own thread of control: a step that can be taken is
\* taken
SpecChunkLoop == InitChunkLoop /\ [][NextChunkLoop]_vars /\ WF_vars(NextChunkLoop)

-----------------------------------------------------------------------------
(* Claims about the chunk_text loop, checked under SpecChunkLoop *)

\* C22: chunk_text returns for every text and every chunk_size and
\* chunk_overlap, also with chunk_overlap >= chunk_size: every iteration of
\* its loop moves the start position forward by one sentence or more and
\* appends one chunk at most, so there are never more chunks than sentences.
C22_ChunkTextTerminates ==
    /\ [][(last_op.op = "chunk_loop" /\ last_op'.op = "chunk_loop")
          => /\ last_op'.i > last_op.i
             /\ Len(last_op'.chunks) <= Len(last_op.chunks) + 1]_vars
    /\ [](last_op.op \in {"chunk_loop", "chunk_text"}
          => Len(last_op.chunks) <= Len(last_op.sentences))
    /\ <>(last_op.op = "chunk_text")

\* chunk_text returned several chunks with chunk_overlap >= chunk_size, and
\* the overlap of one chunk was the whole chunk
C22_Witness ==
    /\ last_op.op = "chunk_text"
    /\ processor.chunk_overlap >= processor.chunk_size
    /\ Len(last_op.chunks) >= 3
    /\ \E k \in 1..(Len(last_op.chunks) - 1) :
          LET c == last_op.chunks[k]
              n == c.last - c.first + 1
          IN  /\ n >= 2
              /\ OverlapSentences(SubSeq(last_op.sentences, c.first, c.last), n - 1, 0, 0,
                                  processor.chunk_overlap) = n

-----------------------------------------------------------------------------
(* Claims about the people section, checked under SpecParse *)

\* a line one of the three marker patterns matches
IsMarkerLine(line) ==
    \/ MarkerMatch(line, TitleMarker) # <<>>
    \/ MarkerMatch(line, LinkMarker) # <<>>
    \/ PeopleSectionMatch(line)

\* the people section is open at line k as the format describes it: a section
\* marker precedes the line, and every line between the two is empty or
\* starts with '-'
SectionOpenAt(lines, k) ==
    \E m \in 1..(k - 1) :
        /\ PeopleSectionMatch(lines[m])
        /\ \A j \in (m + 1)..(k - 1) : lines[j] = <<>> \/ StartsWithDash(lines[j])

RECURSIVE SectionPeople(_, _)
\* the persons of the '-' lines from line k on at which the section is open
SectionPeople(lines, k) ==
    IF k > Len(lines) THEN <<>>
    ELSE (IF /\ StartsWithDash(lines[k])
             /\ SectionOpenAt(lines, k)
             /\ ParsePersonLine(lines[k]).found
          THEN <<ParsePersonLine(lines[k]).person>>
          ELSE <<>>) \o SectionPeople(lines, k + 1)

RECURSIVE SectionBody(_, _)
\* the words of the lines from line k on that are body text: the non-empty
\* lines that are no marker line and no '-' line of an open section
SectionBody(lines, k) ==
    IF k > Len(lines) THEN <<>>
    ELSE (IF \/ lines[k] = <<>>
             \/ IsMarkerLine(lines[k])
             \/ StartsWithDash(lines[k]) /\ SectionOpenAt(lines, k)
          THEN <<>>
          ELSE lines[k]) \o SectionBody(lines, k + 1)

\* C23: the people section opened by its marker line stays open across '-'
\* lines and closes at the first link line or the first non-empty line that
\* does not start with '-': the article's people are the persons of the '-'
\* lines inside the section, and every other '-' line, like the line that
\* closes the section, is body text.
C23_PeopleSectionExtent ==
    last_op.op = "process_article_document"
    => /\ last_op.out.article.people = SectionPeople(doc_file.lines, 1)
       /\ last_op.body = SectionBody(doc_file.lines, 1)

-----------------------------------------------------------------------------
(* AIGenerator.generate_response called without a tool manager              *)
(* (tool_manager=None), the tool definitions still being offered            *)

\* what the model may answer: any mix of two texts and a tool-use block,
\* stopping for tool use, or a final answer
DirectResponses ==
    {[stop_reason |-> "tool_use", content |-> c] :
        c \in SeqsUpTo({TextBlock("t1"), TextBlock("t2"),
                        ToolUseBlock(ToolCall(SearchToolName, TRUE, "A1", <<>>, <<>>))},
                       MaxBlocks)}
    \cup TextResponses

\* generate_response(query, tools=..., tool_manager=None) is called
GenerateStart(p) ==
    /\ pc[p] \in {"idle", "done"}
    /\ nqueries < MaxQueries
    /\ nqueries' = nqueries + 1
    /\ qid' = [qid EXCEPT ![p] = nqueries + 1]
    /\ pc' = [pc EXCEPT ![p] = "direct"]
    /\ current_round' = [current_round EXCEPT ![p] = 0]
    /\ messages' = [messages EXCEPT ![p] = <<[role |-> "user", content |-> "prompt"]>>]
    /\ response' = [response EXCEPT ![p] = [stop_reason |-> None, content |-> <<>>]]
    /\ block_idx' = [block_idx EXCEPT ![p] = 0]
    /\ tool_results' = [tool_results EXCEPT ![p] = <<>>]
    /\ api_log' = [api_log EXCEPT ![p] = <<>>]
    /\ tool_log' = [tool_log EXCEPT ![p] = <<>>]
    /\ outcome' = [outcome EXCEPT ![p] = [kind |-> "none"]]
    /\ UNCHANGED <<storeVars, docVars, tool_manager, last_sources, slot_writer, last_op>>

\* the first iteration of the while loop without a tool manager: the model
\* call, then `if response.stop_reason != "tool_use"` or `if not
\* tool_manager` returns the extracted text
GenerateRound(p, resp) ==
    /\ pc[p] = "direct"
    /\ LoopContinues(current_round[p])
    /\ LET r == WithIds(resp, current_round[p] + 1)
       IN  /\ current_round' = [current_round EXCEPT ![p] = @ + 1]
           /\ api_log' = [api_log EXCEPT ![p] =
                  Append(@, ApiRecord(p, TRUE, current_round[p] + 1, r))]
           /\ response' = [response EXCEPT ![p] = r]
           /\ outcome' = [outcome EXCEPT ![p] =
                  IF ~RequestsToolUse(r)
                  THEN ReturnedText(ExtractTextResponse(r.content))
                  ELSE ReturnedText(ExtractTextResponse(r.content))]
           /\ pc' = [pc EXCEPT ![p] = "done"]
    /\ UNCHANGED <<storeVars, docVars, tool_manager, last_sources, slot_writer, last_op,
                   messages, block_idx, tool_results, tool_log, qid, nqueries>>

\* the model call raises: generate_response re-raises
GenerateFail(p) ==
    /\ pc[p] = "direct"
    /\ api_log' = [api_log EXCEPT ![p] =
           Append(@, ApiRecord(p, TRUE, current_round[p] + 1, ApiError))]
    /\ current_round' = [current_round EXCEPT ![p] = @ + 1]
    /\ outcome' = [outcome EXCEPT ![p] = Raised("api")]
    /\ pc' = [pc EXCEPT ![p] = "done"]
    /\ UNCHANGED <<storeVars, docVars, tool_manager, last_sources, slot_writer, last_op,
                   messages, response, block_idx, tool_results, tool_log, qid, nqueries>>

\* calls of two callers, their steps interleaved
NextGenerate ==
    \E p \in Callers :
        \/ GenerateStart(p)
        \/ \E resp \in DirectResponses : GenerateRound(p, resp)
        \/ GenerateFail(p)

SpecGenerate == InitLoop /\ [][NextGenerate]_vars

-----------------------------------------------------------------------------
(* Claims about generate_response without a tool manager, checked under     *)
(* SpecGenerate                                                             *)

\* the text of the first block of a response that is a text block, the
\* empty string when it has none
FirstText(blocks) ==
    IF \E i \in 1..Len(blocks) : blocks[i].type = "text"
    THEN blocks[CHOOSE i \in 1..Len(blocks) :
                   /\ blocks[i].type = "text"
                   /\ \A j \in 1..(i - 1) : blocks[j].type # "text"].text
    ELSE ""

\* C24: without a tool manager, a response that stops for tool use ends
\* generate_response: one model call was made, no tool was executed, no
\* tool holds sources, the messages are the user's prompt alone, and the
\* text returned is that of the response's first text block, or the empty
\* string.
C24_NoManagerReturns ==
    /\ \A t \in ToolNames : last_sources[t] = <<>>
    /\ \A p \in Callers :
          /\ Len(api_log[p]) <= 1
          /\ tool_log[p] = <<>>
          /\ (Len(api_log[p]) = 1 /\ RequestsToolUse(api_log[p][1].response))
             => /\ pc[p] = "done"
                /\ Len(messages[p]) = 1
                /\ outcome[p] = ReturnedText(FirstText(api_log[p][1].response.content))

\* the response asked for a tool before its text, and the text was returned
C24_Witness ==
    /\ pc[1] = "done"
    /\ Len(api_log[1]) = 1
    /\ RequestsToolUse(api_log[1][1].response)
    /\ Len(api_log[1][1].response.content) = 2
    /\ api_log[1][1].response.content[1].type = "tool_use"
    /\ outcome[1] = ReturnedText("t2")

\* the response asked for a tool and held no text: the empty string
C24_WitnessNoText ==
    /\ pc[1] = "done"
    /\ Len(api_log[1]) = 1
    /\ RequestsToolUse(api_log[1][1].response)
    /\ \A i \in 1..Len(api_log[1][1].response.content) :
          api_log[1][1].response.content[i].type = "tool_use"
    /\ outcome[1] = ReturnedText("")

-----------------------------------------------------------------------------
(* More claims about get_all_people_with_frequency, checked under SpecPeople *)

\* C25: every returned person's frecuencia is the number of articles of the
\* catalog whose people list holds that name, names compared without regard
\* to case, and no two returned entries have the same case-folded name.
C25_FrequencyIsArticleCount ==
    last_op.op = "get_all_people_with_frequency"
    => LET out == last_op.out
       IN  /\ \A i \in 1..Len(out) :
                 out[i].frecuencia = ArticleCount(article_catalog, out[i].key)
           /\ \A i, j \in 1..Len(out) : out[i].key = out[j].key => i = j

-----------------------------------------------------------------------------
(* Claims about the messages sent to the model, checked under Spec *)

\* a message list that starts with a user message, alternates user and
\* assistant messages and ends with a user message
Alternating(msgs) ==
    /\ msgs # <<>>
    /\ \A i \in 1..Len(msgs) :
          msgs[i].role = IF i % 2 = 1 THEN "user" ELSE "assistant"
    /\ msgs[Len(msgs)].role = "user"

\* C26: the message list of every model call generate_response makes starts
\* with a user message, alternates user and assistant messages and ends
\* with a user message, whatever the model answered before.
C26_MessagesAlternate ==
    \A k \in 1..Len(api_log[1]) : Alternating(api_log[1][k].messages)

-----------------------------------------------------------------------------
(* More claims about chunk_text, checked under SpecChunk *)

\* C27: with chunk_overlap > 0 every chunk after the first holds a sentence
\* that the chunk before it does not hold: it reaches further into the text.
C27_ChunkAddsSentence ==
    (last_op.op = "chunk_text" /\ processor.chunk_overlap > 0)
    => \A k \in 2..Len(last_op.chunks) :
          last_op.chunks[k].last > last_op.chunks[k - 1].last

-----------------------------------------------------------------------------
(* Claims about the tools' last_sources slots, checked under SpecTools *)

\* the messages with which the people tool reports that it found nothing
PeopleNotFoundMessages ==
    {"No se encontraron personas registradas en las noticias",
     "No se encontraron personas registradas en el articulo",
     "No se encontraron articulos que mencionen a",
     "No se encontraron personas con el cargo",
     "No se encontraron resultados"}

\* C28: after a call of the people tool that returned one of its not-found
\* messages the tool's last_sources list is empty, whichever filters were
\* supplied.
C28_NotFoundLeavesNoSources ==
    (/\ last_op.op = "execute_tool"
     /\ last_op.call.name = PeopleToolName
     /\ ~last_op.raised
     /\ last_op.result.msg \in PeopleNotFoundMessages)
    => last_sources[PeopleToolName] = <<>>

\* C29: a call of the content search tool that returns an error or the
\* no-relevant-content message leaves every last_sources slot as it was; a
\* call that returns documents replaces the tool's slot by one source per
\* returned document, in order and indexed from 1, and leaves the people
\* tool's slot as it was.
C29_SearchSlotFrame ==
    [][(/\ last_op'.op = "execute_tool"
        /\ last_op'.call.name = SearchToolName
        /\ ~last_op'.raised)
       => LET result == last_op'.result
              slot == last_sources'[SearchToolName]
          IN  IF result.msg # "joined"
              THEN last_sources' = last_sources
              ELSE /\ last_sources'[PeopleToolName] = last_sources[PeopleToolName]
                   /\ Len(slot) = Len(result.parts)
                   /\ \A i \in 1..Len(slot) :
                         /\ slot[i].index = i
                         /\ slot[i].text.title = result.parts[i].title]_vars

\* a search that found nothing was run while the tool held the sources of an
\* earlier search, which it still holds
C29_Witness ==
    /\ last_op.op = "execute_tool"
    /\ last_op.call.name = SearchToolName
    /\ ~last_op.raised
    /\ last_op.result.msg # "joined"
    /\ last_sources[SearchToolName] # <<>>

-----------------------------------------------------------------------------
(* Claims about add_articles_folder, checked under SpecIngest *)

\* C30: add_articles_folder called with a folder path that does not exist
\* returns (0, 0) and leaves the catalog and the content index as they were,
\* with clear_existing set or not.
C30_MissingFolderNoChange ==
    [][(/\ last_op'.op = "add_articles_folder"
        /\ last_op' # [op |-> "add_articles_folder"]
        /\ ~last_op'.folder_exists)
       => /\ last_op'.returned = <<0, 0>>
          /\ article_catalog' = article_catalog
          /\ article_content' = article_content]_vars
====
